---- MODULE Spec2Model ----
(***************************************************************************)
(* Model of the social-media engagement bot (flare_ai_social).             *)
(*                                                                         *)
(* Part 1, ReplyDispatcher: TwitterBot.post_tweet / TwitterBot.post_reply, *)
(* the recursive retry with exponential backoff, one action per await      *)
(* point (the HTTP request, the backoff sleep followed by the recursive    *)
(* call).                                                                  *)
(* Part 2, MentionFilter: TwitterBot.process_tweets, a pure function of    *)
(* the tweet list, the monitored account, the clock and the polling        *)
(* interval.                                                               *)
(* Part 3, MentionExtractor: TwitterBot._extract_tweets_from_response, the *)
(* guarded traversal of the search response inside one try/except.         *)
(* Part 4, Startup: TwitterBot.__init__ and BotManager.start_twitter_bot.  *)
(* Part 5, ChatHandler: TelegramBot.handle_message, one action per await   *)
(* point, with TelegramBot.initialize before the first update.             *)
(* Part 6, MentionPoller: TwitterBot.monitor_mentions with search_twitter, *)
(* process_tweets and handle_mention, one action per await point; the loop *)
(* runs forever and the log of what a cycle did is reset with each cycle.  *)
(* Part 7, MentionWindow: the same loop for one account and one mention,   *)
(* with the clock, the time window of the filter and the time a reply      *)
(* takes.                                                                  *)
(* Part 8, BotIdentity: TelegramBot.initialize and the handlers that fetch *)
(* the bot's identity when it is still unknown.                            *)
(* Part 9, Orchestrator: BotManager.monitor_bots, async_start and the      *)
(* shutdown of the bots.                                                   *)
(* Part 10, RequestSigner: TwitterBot._get_oauth1_auth as a function of    *)
(* its inputs, with strings as sequences of characters.                    *)
(* Each part has its own variables, initial predicate and specification;   *)
(* the variables of the other parts keep their "off" values.               *)
(***************************************************************************)
EXTENDS Integers, Sequences, FiniteSets, TLC

VARIABLES
  \* ---- ReplyDispatcher (twitter/service.py, post_tweet / post_reply) ----
  op,            \* "none" | "post" | "reply": the operation being called
  pc,            \* "idle" | "request" | "sleeping" | "done"
  retry_count,   \* the retry_count argument of the innermost call level
  max_retries,   \* the max_retries argument (passed unchanged down the recursion)
  retry_delay,   \* the delay the innermost level is about to sleep
  attempts,      \* number of HTTP requests issued by this call
  delays,        \* the delays slept so far, in order
  outcomes,      \* the remote outcomes seen so far, in order
  result,        \* what the outermost call gave its caller
  \* ---- MentionFilter (twitter/service.py, process_tweets) ----
  fpc,           \* "off" | "ready" | "returned" | "raised"
  tweets,        \* the tweets argument
  account,       \* the account argument (monitored handle)
  current_time,  \* time.time() at the call
  new_mentions,  \* the returned list
  \* ---- MentionExtractor (twitter/service.py, _extract_tweets_from_response) ----
  xpc,           \* "off" | "ready" | "returned" | "raised"
  response_data, \* the response_data argument
  extracted,     \* the returned list
  \* ---- Startup (bot_manager.py, start_twitter_bot; TwitterBot.__init__) ----
  spc,           \* "off" | "ready" | "constructed" | "ctor_raised" | "start_returned"
  settings,      \* the settings the process was started with
  ai_provider,   \* BotManager.ai_provider
  ctor_error,    \* the exception TwitterBot.__init__ raised, if it did
  twitter_thread,\* BotManager.twitter_thread
  active_bots,   \* BotManager.active_bots
  start_result,  \* what start_twitter_bot returned
  network_calls, \* HTTP requests issued by the poller thread
  \* ---- ChatHandler (telegram/service.py, TelegramBot) ----
  tpc,           \* "off" | "init" | "idle" | "get_me" | "notice" | "typing" |
                 \* "reply" | "fallback" | "done": position of the handler
  allowed_user_ids,     \* TelegramBot.allowed_user_ids
  me,                   \* TelegramBot.me
  last_processed_time,  \* TelegramBot.last_processed_time, 0 for an absent key
  clock,                \* the clock time.time() reads
  update,               \* the update the handler was called with
  message_text,         \* the local message_text
  is_mentioned,         \* the local is_mentioned
  matched_by,           \* the detection rule that set is_mentioned
  typing_actions,       \* typing indicators sent for this update
  prompts,              \* texts handed to the generator for this update
  replies,              \* texts sent back for this update
  exit,                 \* how the handler left: a return point or "raised"
  last_processed_before,\* last_processed_time when the handler was entered
  \* ---- MentionPoller (twitter/service.py, monitor_mentions) ----
  ppc,           \* "off" | "search" | "search_sleep" | "handle" | "reply" |
                 \* "reply_sleep" | "handle_sleep" | "cycle_sleep" | "error_sleep"
  accounts_to_monitor,  \* TwitterBot.accounts_to_monitor
  acct_idx,      \* position of the for loop over the accounts, from 1
  search_rc,     \* retry_count of the innermost search_twitter level
  backoff,       \* the delay the innermost level is about to sleep
  queue,         \* the new mentions of the account not replied to yet
  reply_rc,      \* retry_count of the innermost post_reply level
  reply,         \* the reply post_reply is dispatching
  gen_prompt,    \* the text the generator was last called with
  gen_result,    \* what the generator did in the handle_mention in progress
  plog,          \* what the current cycle did so far, in order
  slept,         \* the argument of the last asyncio.sleep, 0 before any
  reply_result,  \* what the post_reply that has just returned gave, else Unset
  \* ---- MentionWindow (monitor_mentions and one mention, with the clock) ----
  wpc,           \* "off" | "search" | "search_sleep" | "cycle_sleep" | "error_sleep"
  wclock,        \* what time.time() reads
  posted_at,     \* when the mention was posted, as its created_at spells it
  w_rc,          \* retry_count of the innermost search_twitter level
  wbackoff,      \* the delay the innermost level is about to sleep
  dispatches,    \* replies handed to post_reply for the mention
  wmissed,       \* a filter call dropped the mention without any reply to it
  wdelayed,      \* a retry, a reply backoff or an error sleep has happened
  wfailed,       \* a search has ended without a result
  \* ---- BotIdentity (telegram/service.py, self.me and who fetches it) ----
  ipc,           \* "off" | "init" | "polling"
  cached_me,     \* TelegramBot.me
  handlers,      \* per handler slot: "idle" | "fetching"
  ran,           \* the handlers started so far: which one and how it found me
  fetched_ok,    \* get_me calls that returned an identity
  overwritten,   \* assignments to me made while it held an identity
  \* ---- Orchestrator (bot_manager.py, async_start / monitor_bots / shutdown) ----
  opc,           \* "off" | "waiting" | "cancelling" | "shutdown" | "updater" |
                 \* "application" | "release" | "ended": where async_start is
  bots,          \* BotManager.active_bots once the bots have been started
  thread_is_alive,    \* twitter_thread.is_alive()
  monitor_task,  \* "none" | "sleeping" | "done" | "cancelled"
  running,       \* BotManager.running
  telegram_bot,  \* "none" | "failed" | "polling" | "updater_stopped" |
                 \* "stopped" | "shut_down"
  auto_restart_bots,  \* getattr(settings, "auto_restart_bots", False)
  restarts,      \* restarts of the Twitter bot attempted by monitor_bots
  olog,          \* the steps of the shutdown path taken so far
  taken_after,   \* the kinds of work taken up after the shutdown path began
  ended_by,      \* "none" | "empty" | "cancelled": why the main loop ended
  \* ---- RequestSigner (twitter/service.py, _get_oauth1_auth) ----
  gpc,           \* "off" | "ready" | "signed"
  request,       \* the two calls: what they share and what differs
  header1,       \* what the first call returned
  header2        \* what the second call returned

dvars == <<op, pc, retry_count, max_retries, retry_delay, attempts, delays,
           outcomes, result>>
fvars == <<fpc, tweets, account, current_time, new_mentions>>
xvars == <<xpc, response_data, extracted>>
svars == <<spc, settings, ai_provider, ctor_error, twitter_thread, active_bots,
           start_result, network_calls>>
tvars == <<tpc, allowed_user_ids, me, last_processed_time, clock, update,
           message_text, is_mentioned, matched_by, typing_actions, prompts,
           replies, exit, last_processed_before>>
pvars == <<ppc, accounts_to_monitor, acct_idx, search_rc, backoff, queue,
           reply_rc, reply, gen_prompt, gen_result, plog, slept, reply_result>>
wvars == <<wpc, wclock, posted_at, w_rc, wbackoff, dispatches, wmissed,
           wdelayed, wfailed>>
ivars == <<ipc, cached_me, handlers, ran, fetched_ok, overwritten>>
ovars == <<opc, bots, thread_is_alive, monitor_task, running, telegram_bot,
           auto_restart_bots, restarts, olog, taken_after, ended_by>>
gvars == <<gpc, request, header1, header2>>
vars == <<op, pc, retry_count, max_retries, retry_delay, attempts, delays,
          outcomes, result, fpc, tweets, account, current_time, new_mentions,
          xpc, response_data, extracted,
          spc, settings, ai_provider, ctor_error, twitter_thread, active_bots,
          start_result, network_calls,
          tpc, allowed_user_ids, me, last_processed_time, clock, update,
          message_text, is_mentioned, matched_by, typing_actions, prompts,
          replies, exit, last_processed_before,
          ppc, accounts_to_monitor, acct_idx, search_rc, backoff, queue,
          reply_rc, reply, gen_prompt, gen_result, plog, slept, reply_result,
          wpc, wclock, posted_at, w_rc, wbackoff, dispatches, wmissed,
          wdelayed, wfailed,
          ipc, cached_me, handlers, ran, fetched_ok, overwritten,
          opc, bots, thread_is_alive, monitor_task, running, telegram_bot,
          auto_restart_bots, restarts, olog, taken_after, ended_by,
          gpc, request, header1, header2>>

\* the variables of the other components, which a component's steps leave alone
not_dvars == <<fvars, xvars, svars, tvars, pvars, wvars, ivars, ovars, gvars>>
not_fvars == <<dvars, xvars, svars, tvars, pvars, wvars, ivars, ovars, gvars>>
not_xvars == <<dvars, fvars, svars, tvars, pvars, wvars, ivars, ovars, gvars>>
not_svars == <<dvars, fvars, xvars, tvars, pvars, wvars, ivars, ovars, gvars>>
not_tvars == <<dvars, fvars, xvars, svars, pvars, wvars, ivars, ovars, gvars>>
not_pvars == <<dvars, fvars, xvars, svars, tvars, wvars, ivars, ovars, gvars>>
not_wvars == <<dvars, fvars, xvars, svars, tvars, pvars, ivars, ovars, gvars>>
not_ivars == <<dvars, fvars, xvars, svars, tvars, pvars, wvars, ovars, gvars>>
not_ovars == <<dvars, fvars, xvars, svars, tvars, pvars, wvars, ivars, gvars>>
not_gvars == <<dvars, fvars, xvars, svars, tvars, pvars, wvars, ivars, ovars>>

-----------------------------------------------------------------------------
(* Bounds *)

\* max_retries is drawn from 0..MaxRetriesBound
MaxRetriesBound == 3

\* process_tweets is given lists of at most MaxTweets tweets
MaxTweets == 2

\* an instruction of a search response holds at most MaxEntries entries
MaxEntries == 2

-----------------------------------------------------------------------------
(* ReplyDispatcher *)

\* the default of the max_retries parameter
DefaultMaxRetries == 3

Null == "None"          \* Python None
Raised == "raised"      \* an exception left the call
NoId == "missing"       \* a response body without data.id
PostIds == {"1001", "1002"}

Ops == {"post", "reply"}

\* HTTP statuses a request can end with
Statuses == {200, 201, 204, 400, 403, 429, 500, 503}

\* The outcome of one HTTP request: a response (status and, for a body that
\* is read, the id it carries), the 30 s client timeout, or another exception
\* raised while building, sending or reading the request.
Outcomes ==
  { [kind |-> "status", status |-> s, id |-> i] :
       s \in {200, 201}, i \in PostIds \cup {NoId} }
  \cup { [kind |-> "status", status |-> s, id |-> NoId] :
       s \in Statuses \ {200, 201} }
  \cup { [kind |-> "timeout", status |-> 0, id |-> NoId],
         [kind |-> "error", status |-> 0, id |-> NoId] }

\* What one call level does
Return(v) == [act |-> "return", value |-> v, delay |-> 0, exc |-> "none"]
Retry(d) == [act |-> "retry", value |-> Null, delay |-> d, exc |-> "none"]
Raise(e) == [act |-> "raise", value |-> Null, delay |-> 0, exc |-> e]

\* Exception classes that `except Exception` catches
ExceptionClasses == {"TimeoutError", "KeyError", "Exception"}

\* post_tweet_try with the 5xx retry guard off by one (retry_count <= max_retries)
post_tweet_try_offbyone(rc, mr, o) ==
  IF o.kind = "timeout" THEN Raise("TimeoutError")
  ELSE IF o.kind = "error" THEN Raise("Exception")
  ELSE IF o.status \in {200, 201}
    THEN (IF o.id = NoId THEN Raise("KeyError") ELSE Return(o.id))
  ELSE IF o.status >= 500 /\ rc <= mr THEN Retry((2 ^ rc) * 2)
  ELSE IF o.status = 429 /\ rc < mr THEN Retry((2 ^ rc) * 10)
  ELSE Return(Null)

\* post_tweet_try with the 429 backoff doubled (2^retry_count * 20)
post_tweet_try_429x20(rc, mr, o) ==
  IF o.kind = "timeout" THEN Raise("TimeoutError")
  ELSE IF o.kind = "error" THEN Raise("Exception")
  ELSE IF o.status \in {200, 201}
    THEN (IF o.id = NoId THEN Raise("KeyError") ELSE Return(o.id))
  ELSE IF o.status >= 500 /\ rc < mr THEN Retry((2 ^ rc) * 2)
  ELSE IF o.status = 429 /\ rc < mr THEN Retry((2 ^ rc) * 20)
  ELSE Return(Null)

\* the try body of post_tweet: the request and the handling of its response
post_tweet_try(rc, mr, o) ==
  IF o.kind = "timeout" THEN Raise("TimeoutError")
  ELSE IF o.kind = "error" THEN Raise("Exception")
  ELSE IF o.status \in {200, 201}
    THEN (IF o.id = NoId THEN Raise("KeyError") ELSE Return(o.id))
  ELSE IF o.status >= 500 /\ rc < mr THEN Retry((2 ^ rc) * 2)
  ELSE IF o.status = 429 /\ rc < mr THEN Retry((2 ^ rc) * 10)
  ELSE Return(Null)

\* post_tweet without its `except Exception` clause
post_tweet_nocatch(rc, mr, o) ==
  LET b == post_tweet_try(rc, mr, o) IN
  IF b.act # "raise" THEN b
  ELSE IF b.exc = "TimeoutError"
    THEN (IF rc < mr THEN Retry((2 ^ rc) * 5) ELSE Return(Null))
  ELSE b

\* one call level of post_tweet: the try body and its except clauses
post_tweet(rc, mr, o) ==
  LET b == post_tweet_try(rc, mr, o) IN
  IF b.act # "raise" THEN b
  ELSE IF b.exc = "TimeoutError"
    THEN (IF rc < mr THEN Retry((2 ^ rc) * 5) ELSE Return(Null))
  ELSE IF b.exc \in ExceptionClasses THEN Return(Null)
  ELSE b

\* post_reply_try retrying every 4xx response, not only 429
post_reply_try_any4xx(rc, mr, o) ==
  IF o.kind = "timeout" THEN Raise("TimeoutError")
  ELSE IF o.kind = "error" THEN Raise("Exception")
  ELSE IF o.status \in {200, 201}
    THEN (IF o.id = NoId THEN Raise("KeyError") ELSE Return(o.id))
  ELSE IF o.status >= 500 /\ rc < mr THEN Retry((2 ^ rc) * 2)
  ELSE IF o.status >= 400 /\ rc < mr THEN Retry((2 ^ rc) * 10)
  ELSE Return(Null)

\* post_reply_try accepting only status 200 as success
post_reply_try_only200(rc, mr, o) ==
  IF o.kind = "timeout" THEN Raise("TimeoutError")
  ELSE IF o.kind = "error" THEN Raise("Exception")
  ELSE IF o.status \in {200}
    THEN (IF o.id = NoId THEN Raise("KeyError") ELSE Return(o.id))
  ELSE IF o.status >= 500 /\ rc < mr THEN Retry((2 ^ rc) * 2)
  ELSE IF o.status = 429 /\ rc < mr THEN Retry((2 ^ rc) * 10)
  ELSE Return(Null)

\* the try body of post_reply
post_reply_try(rc, mr, o) ==
  IF o.kind = "timeout" THEN Raise("TimeoutError")
  ELSE IF o.kind = "error" THEN Raise("Exception")
  ELSE IF o.status \in {200, 201}
    THEN (IF o.id = NoId THEN Raise("KeyError") ELSE Return(o.id))
  ELSE IF o.status >= 500 /\ rc < mr THEN Retry((2 ^ rc) * 2)
  ELSE IF o.status = 429 /\ rc < mr THEN Retry((2 ^ rc) * 10)
  ELSE Return(Null)

\* post_reply retrying after an unexpected exception without looking at the cap
post_reply_uncapped(rc, mr, o) ==
  LET b == post_reply_try(rc, mr, o) IN
  IF b.act # "raise" THEN b
  ELSE IF b.exc = "TimeoutError"
    THEN (IF rc < mr THEN Retry((2 ^ rc) * 5) ELSE Return(Null))
  ELSE IF b.exc \in ExceptionClasses THEN Retry((2 ^ rc) * 3)
  ELSE b

\* post_reply with the timeout backoff using the factor of the exception backoff
post_reply_timeout3(rc, mr, o) ==
  LET b == post_reply_try(rc, mr, o) IN
  IF b.act # "raise" THEN b
  ELSE IF b.exc = "TimeoutError"
    THEN (IF rc < mr THEN Retry((2 ^ rc) * 3) ELSE Return(Null))
  ELSE IF b.exc \in ExceptionClasses
    THEN (IF rc >= mr THEN Return(Null)
          ELSE IF rc < mr THEN Retry((2 ^ rc) * 3)
          ELSE Return(Null))
  ELSE b

\* post_reply raising again once the retries after an exception are used up
post_reply_reraise(rc, mr, o) ==
  LET b == post_reply_try(rc, mr, o) IN
  IF b.act # "raise" THEN b
  ELSE IF b.exc = "TimeoutError"
    THEN (IF rc < mr THEN Retry((2 ^ rc) * 5) ELSE Return(Null))
  ELSE IF b.exc \in ExceptionClasses
    THEN (IF rc >= mr THEN [b EXCEPT !.exc = "BaseException"]
          ELSE IF rc < mr THEN Retry((2 ^ rc) * 3)
          ELSE Return(Null))
  ELSE b

\* one call level of post_reply: the try body and its except clauses
post_reply(rc, mr, o) ==
  LET b == post_reply_try(rc, mr, o) IN
  IF b.act # "raise" THEN b
  ELSE IF b.exc = "TimeoutError"
    THEN (IF rc < mr THEN Retry((2 ^ rc) * 5) ELSE Return(Null))
  ELSE IF b.exc \in ExceptionClasses
    THEN (IF rc >= mr THEN Return(Null)
          ELSE IF rc < mr THEN Retry((2 ^ rc) * 3)
          ELSE Return(Null))
  ELSE b

\* the call level of the operation o_p
Level(o_p, rc, mr, o) ==
  IF o_p = "post" THEN post_tweet(rc, mr, o) ELSE post_reply(rc, mr, o)

\* A caller invokes post_tweet(text, max_retries=mr) or
\* post_reply(text, id, max_retries=mr); retry_count starts at its default 0.
Call(o_p, mr) ==
  /\ pc = "idle"
  /\ op' = o_p
  /\ max_retries' = mr
  /\ retry_count' = 0
  /\ pc' = "request"
  /\ UNCHANGED <<retry_delay, attempts, delays, outcomes, result>>
  /\ UNCHANGED not_dvars

\* The HTTP request of the innermost level completes with outcome o and the
\* level handles it: return, raise, or decide to back off.
Respond(o) ==
  /\ pc = "request"
  /\ LET r == Level(op, retry_count, max_retries, o) IN
       /\ attempts' = attempts + 1
       /\ outcomes' = Append(outcomes, o)
       /\ IF r.act = "retry"
            THEN /\ pc' = "sleeping"
                 /\ retry_delay' = r.delay
                 /\ result' = result
            ELSE /\ pc' = "done"
                 /\ retry_delay' = 0
                 /\ result' = IF r.act = "raise" THEN Raised ELSE r.value
  /\ UNCHANGED <<op, retry_count, max_retries, delays>>
  /\ UNCHANGED not_dvars

\* await asyncio.sleep(retry_delay), then the recursive call with
\* retry_count + 1, whose value the level returns unchanged.  The second
\* conjunct only keeps the counter finite should a level retry past the cap;
\* the code's guards keep retry_count below it.
Sleep ==
  /\ pc = "sleeping"
  /\ retry_count <= MaxRetriesBound + 1
  /\ delays' = Append(delays, retry_delay)
  /\ retry_count' = retry_count + 1
  /\ retry_delay' = 0
  /\ pc' = "request"
  /\ UNCHANGED <<op, max_retries, attempts, outcomes, result>>
  /\ UNCHANGED not_dvars

DispatchInit ==
  /\ op = "none"
  /\ pc = "idle"
  /\ retry_count = 0
  /\ max_retries = 0
  /\ retry_delay = 0
  /\ attempts = 0
  /\ delays = <<>>
  /\ outcomes = <<>>
  /\ result = Null

FilterOff ==
  /\ fpc = "off"
  /\ tweets = <<>>
  /\ account = <<>>
  /\ current_time = 0
  /\ new_mentions = <<>>

ExtractOff ==
  /\ xpc = "off"
  /\ response_data = <<>>
  /\ extracted = <<>>

StartOff ==
  /\ spc = "off"
  /\ settings = <<>>
  /\ ai_provider = Null
  /\ ctor_error = Null
  /\ twitter_thread = Null
  /\ active_bots = <<>>
  /\ start_result = Null
  /\ network_calls = 0

ChatOff ==
  /\ tpc = "off"
  /\ allowed_user_ids = {}
  /\ me = Null
  /\ last_processed_time = <<>>
  /\ clock = 0
  /\ update = <<>>
  /\ message_text = <<>>
  /\ is_mentioned = FALSE
  /\ matched_by = "none"
  /\ typing_actions = 0
  /\ prompts = <<>>
  /\ replies = <<>>
  /\ exit = "none"
  /\ last_processed_before = <<>>

PollOff ==
  /\ ppc = "off"
  /\ accounts_to_monitor = <<>>
  /\ acct_idx = 0
  /\ search_rc = 0
  /\ backoff = 0
  /\ queue = <<>>
  /\ reply_rc = 0
  /\ reply = Null
  /\ gen_prompt = <<>>
  /\ gen_result = Null
  /\ plog = <<>>
  /\ slept = 0
  /\ reply_result = <<>>

WindowOff ==
  /\ wpc = "off"
  /\ wclock = 0
  /\ posted_at = 0
  /\ w_rc = 0
  /\ wbackoff = 0
  /\ dispatches = 0
  /\ wmissed = FALSE
  /\ wdelayed = FALSE
  /\ wfailed = FALSE

IdentityOff ==
  /\ ipc = "off"
  /\ cached_me = Null
  /\ handlers = <<>>
  /\ ran = <<>>
  /\ fetched_ok = 0
  /\ overwritten = 0

OrchOff ==
  /\ opc = "off"
  /\ bots = <<>>
  /\ thread_is_alive = FALSE
  /\ monitor_task = "none"
  /\ running = FALSE
  /\ telegram_bot = "none"
  /\ auto_restart_bots = FALSE
  /\ restarts = 0
  /\ olog = <<>>
  /\ taken_after = {}
  /\ ended_by = "none"

SignOff ==
  /\ gpc = "off"
  /\ request = <<>>
  /\ header1 = <<>>
  /\ header2 = <<>>

Init ==
  DispatchInit /\ FilterOff /\ ExtractOff /\ StartOff /\ ChatOff /\ PollOff
    /\ WindowOff
    /\ IdentityOff
    /\ OrchOff
    /\ SignOff

Next ==
  \/ \E o_p \in Ops, mr \in 0..MaxRetriesBound : Call(o_p, mr)
  \/ \E o \in Outcomes : Respond(o)
  \/ Sleep

Spec == Init /\ [][Next]_vars

\* The event loop resumes a coroutine whose await has completed, and every
\* request ends (response, exception, or the 30 s timeout).
FairSpec ==
  /\ Spec
  /\ WF_vars(\E o \in Outcomes : Respond(o))
  /\ WF_vars(Sleep)

-----------------------------------------------------------------------------
(* MentionFilter *)

\* the default of the polling_interval parameter, also the lookback window
PollingInterval == 30

\* str.lower() on the characters used in handles
LowerChar(c) ==
  CASE c = "A" -> "a"
    [] c = "B" -> "b"
    [] c = "C" -> "c"
    [] OTHER -> c

\* str.lower()
lower(str) == [i \in DOMAIN str |-> LowerChar(str[i])]

\* Monitored handles, '@'-prefixed as configured
Accounts == {<<"@", "a", "b">>, <<"@", "A", "B">>}

\* values of time.time() at the call, in whole seconds
NowValues == {1000}

\* A created_at string: whether it matches "%a %b %d %H:%M:%S %z %Y", the
\* calendar fields it spells (as seconds, read as if they were UTC) and the
\* UTC offset its %z field spells (seconds east of UTC).
CreatedAt(f, w, o) == [str |-> TRUE, fmt |-> f, wall |-> w, off |-> o]
Malformed == CreatedAt(FALSE, 0, 0)
\* a created_at that is no string (JSON null or a number)
NotAString == [str |-> FALSE, fmt |-> FALSE, wall |-> 0, off |-> 0]

\* Well-formed strings as <<calendar fields relative to the window edge,
\* UTC offset>>: offsets +0000, +0001 and -0001 around the edge of the window
EdgeCases ==
  { <<0 - 1, 0>>, <<0, 0>>, <<60, 0>>, <<0, 60>>, <<0 - 60, 0 - 60>>,
    <<0 - 1, 0 - 60>> }

CreatedAtValues ==
  {Malformed} \cup
  { CreatedAt(TRUE, 1000 - PollingInterval + e[1], e[2]) : e \in EdgeCases }

\* The instant a well-formed created_at string denotes, as a UTC epoch
UtcEpoch(c) == c.wall - c.off

\* time.strptime(created_at, "%a %b %d %H:%M:%S %z %Y"): the struct_time
\* holds the calendar fields as written and tm_gmtoff; a string that does
\* not match raises ValueError, an argument that is no string TypeError.
strptime(c) ==
  IF ~c.str
    THEN [ok |-> FALSE, exc |-> "TypeError", fields |-> 0, tm_gmtoff |-> 0]
  ELSE IF c.fmt
    THEN [ok |-> TRUE, exc |-> "none", fields |-> c.wall, tm_gmtoff |-> c.off]
    ELSE [ok |-> FALSE, exc |-> "ValueError", fields |-> 0, tm_gmtoff |-> 0]

\* calendar.timegm(struct_time): the epoch of the calendar fields read as
\* UTC; tm_gmtoff is not consulted.
timegm(st) == st.fields

\* A tweet dict: which of the keys id_str / created_at it has, their values,
\* and the screen names of entities.user_mentions in order (character
\* sequences; <<>> is the '' a mention without a screen_name defaults to).
Tweet(hi, i, hc, c, ms) ==
  [has_id |-> hi, id_str |-> i, has_created |-> hc, created_at |-> c,
   user_mentions |-> ms]

MentionLists ==
  { <<>>, <<<<"a", "b">>>>, <<<<"A", "b">>>>, <<<<"c", "b">>>>, <<<<>>>>,
    <<<<"c", "b">>, <<"A", "b">>>> }

TweetPool ==
  { Tweet(TRUE, "t1", TRUE, c, ms) : c \in CreatedAtValues, ms \in MentionLists }
  \cup { Tweet(FALSE, "", TRUE, CreatedAt(TRUE, 1000, 0), <<<<"a", "b">>>>),
         Tweet(TRUE, "t1", FALSE, Malformed, <<<<"a", "b">>>>),
         Tweet(TRUE, "", TRUE, CreatedAt(TRUE, 1000, 0), <<<<"a", "b">>>>) }

\* the loop over entities.user_mentions: stops at the first match
RECURSIVE mentioned(_, _)
mentioned(ms, acct) ==
  IF ms = <<>> THEN FALSE
  ELSE IF <<"@">> \o lower(Head(ms)) = lower(acct) THEN TRUE
  ELSE mentioned(Tail(ms), acct)

\* the exception classes of `except (ValueError, KeyError)`
FilterCaught == {"ValueError", "KeyError"}

\* keeps with the window edge excluded (<= instead of <)
keeps_strict(tweet, acct, time_window_ago) ==
  IF ~(tweet.has_id /\ tweet.has_created) THEN "skip"
  ELSE LET created_time == strptime(tweet.created_at) IN
       IF ~created_time.ok
         THEN (IF created_time.exc \in FilterCaught THEN "skip" ELSE "raise")
       ELSE IF timegm(created_time) <= time_window_ago THEN "skip"
       ELSE IF mentioned(tweet.user_mentions, acct) THEN "keep"
       ELSE "skip"

\* keeps without the `if not mentioned: continue` test
keeps_unmentioned(tweet, acct, time_window_ago) ==
  IF ~(tweet.has_id /\ tweet.has_created) THEN "skip"
  ELSE LET created_time == strptime(tweet.created_at) IN
       IF ~created_time.ok
         THEN (IF created_time.exc \in FilterCaught THEN "skip" ELSE "raise")
       ELSE IF timegm(created_time) < time_window_ago THEN "skip"
       ELSE "keep"

\* keeps with an except clause that catches KeyError only
keeps_uncaught(tweet, acct, time_window_ago) ==
  IF ~(tweet.has_id /\ tweet.has_created) THEN "skip"
  ELSE LET created_time == strptime(tweet.created_at) IN
       IF ~created_time.ok
         THEN (IF created_time.exc \in {"KeyError"} THEN "skip" ELSE "raise")
       ELSE IF timegm(created_time) < time_window_ago THEN "skip"
       ELSE IF mentioned(tweet.user_mentions, acct) THEN "keep"
       ELSE "skip"

\* one iteration of the loop of process_tweets: "keep" when the tweet is
\* appended, "skip" on a continue, "raise" when an exception leaves the loop
keeps(tweet, acct, time_window_ago) ==
  IF ~(tweet.has_id /\ tweet.has_created) THEN "skip"
  ELSE LET created_time == strptime(tweet.created_at) IN
       IF ~created_time.ok
         THEN (IF created_time.exc \in FilterCaught THEN "skip" ELSE "raise")
       ELSE IF timegm(created_time) < time_window_ago THEN "skip"
       ELSE IF mentioned(tweet.user_mentions, acct) THEN "keep"
       ELSE "skip"

\* the loop of process_tweets: the list built, and whether an exception
\* ended the loop (and the call) before the return
RECURSIVE process_loop(_, _, _)
process_loop(tws, acct, time_window_ago) ==
  IF tws = <<>> THEN [raised |-> FALSE, value |-> <<>>]
  ELSE LET k == keeps(Head(tws), acct, time_window_ago) IN
       IF k = "raise" THEN [raised |-> TRUE, value |-> <<>>]
       ELSE LET rest == process_loop(Tail(tws), acct, time_window_ago) IN
            IF rest.raised THEN rest
            ELSE [raised |-> FALSE,
                  value |-> (IF k = "keep" THEN <<Head(tws)>> ELSE <<>>)
                              \o rest.value]

\* process_tweets(tweets, account) called at time now
process_tweets(tws, acct, now) ==
  IF tws = <<>> THEN [raised |-> FALSE, value |-> <<>>]
  ELSE process_loop(tws, acct, now - PollingInterval)

\* The poller calls process_tweets on the list the search returned.
ProcessTweets ==
  /\ fpc = "ready"
  /\ LET r == process_tweets(tweets, account, current_time) IN
       /\ new_mentions' = r.value
       /\ fpc' = IF r.raised THEN "raised" ELSE "returned"
  /\ UNCHANGED <<tweets, account, current_time>>
  /\ UNCHANGED not_fvars

RECURSIVE SeqsUpTo(_, _)
SeqsUpTo(S, n) ==
  IF n = 0 THEN {<<>>}
  ELSE LET shorter == SeqsUpTo(S, n - 1) IN
       shorter \cup { Append(q, x) : q \in shorter, x \in S }

FilterInit ==
  /\ fpc = "ready"
  /\ tweets \in SeqsUpTo(TweetPool, MaxTweets)
  /\ account \in Accounts
  /\ current_time \in NowValues
  /\ new_mentions = <<>>

InitFilter ==
  DispatchInit /\ FilterInit /\ ExtractOff /\ StartOff /\ ChatOff /\ PollOff
    /\ WindowOff
    /\ IdentityOff
    /\ OrchOff
    /\ SignOff

NextFilter == ProcessTweets

FilterSpec == InitFilter /\ [][NextFilter]_vars

-----------------------------------------------------------------------------
(* MentionExtractor *)

\* A node of the response on the path the extractor follows is "ok" (a dict,
\* with the expected __typename where one is tested), "missing" (the key is
\* absent, so .get returns its {} default), "other" (a dict with another
\* __typename) or "null" (a value that is no dict, such as JSON null).
\* An entry: the entry itself, content, itemContent, tweet_results,
\* tweet_results.result, legacy, the core.user_results.result.legacy chain,
\* and the legacy fields (a missing id_str is has_id = FALSE): created_at,
\* full_text ("@ab hi"), user_id_str, and the screen names and ids of
\* entities.user_mentions.
Entry(self, content, item, tr, res, legacy, core, hi, i) ==
  [self |-> self, content |-> content, itemContent |-> item,
   tweet_results |-> tr, result |-> res, legacy |-> legacy, core |-> core,
   has_id_str |-> hi, id_str |-> i,
   created_at |-> CreatedAt(TRUE, 1000, 0), user_mentions |-> <<<<"a", "b">>>>,
   full_text |-> <<"@", "a", "b", " ", "h", "i">>, user_id_str |-> "u1",
   mention_ids |-> <<"u9">>, user_screen_name |-> <<"x", "y">>]

EntryPool ==
  { Entry("ok", "ok", "ok", "ok", "ok", "ok", "ok", TRUE, "t1"),
    Entry("ok", "ok", "ok", "ok", "ok", "ok", "ok", TRUE, "t2"),
    Entry("ok", "ok", "ok", "ok", "ok", "ok", "ok", FALSE, ""),
    Entry("ok", "ok", "ok", "ok", "ok", "missing", "missing", FALSE, ""),
    Entry("ok", "missing", "ok", "ok", "ok", "ok", "ok", TRUE, "t3"),
    Entry("ok", "other", "ok", "ok", "ok", "ok", "ok", TRUE, "t3"),
    Entry("ok", "ok", "missing", "ok", "ok", "ok", "ok", TRUE, "t3"),
    Entry("ok", "ok", "other", "ok", "ok", "ok", "ok", TRUE, "t3"),
    Entry("ok", "ok", "ok", "missing", "ok", "ok", "ok", TRUE, "t3"),
    Entry("ok", "ok", "ok", "ok", "missing", "ok", "ok", TRUE, "t3"),
    Entry("ok", "ok", "ok", "ok", "other", "ok", "ok", TRUE, "t3"),
    Entry("ok", "other", "null", "ok", "ok", "ok", "ok", TRUE, "t3"),
    Entry("null", "ok", "ok", "ok", "ok", "ok", "ok", TRUE, "t3"),
    Entry("ok", "null", "ok", "ok", "ok", "ok", "ok", TRUE, "t3"),
    Entry("ok", "ok", "null", "ok", "ok", "ok", "ok", TRUE, "t3"),
    Entry("ok", "ok", "ok", "null", "ok", "ok", "ok", TRUE, "t3"),
    Entry("ok", "ok", "ok", "ok", "null", "ok", "ok", TRUE, "t3"),
    Entry("ok", "ok", "ok", "ok", "ok", "null", "ok", TRUE, "t3"),
    Entry("ok", "ok", "ok", "ok", "ok", "ok", "null", TRUE, "t3") }

\* An instruction: the instruction itself ("ok" or "null"), its type, and
\* its entries ("ok": the list es, "missing", or "null")
Instruction(self, type, entries, es) ==
  [self |-> self, type |-> type, entries |-> entries, list |-> es]

AddEntries(es) == Instruction("ok", "TimelineAddEntries", "ok", es)

\* Instructions placed before and after the instruction under test
Wrappers ==
  { <<<<>>, <<>>>>,
    <<<<Instruction("ok", "TimelineClearCache", "ok",
                    <<Entry("ok", "ok", "ok", "ok", "ok", "ok", "ok", TRUE, "t4")>>)>>,
      <<>>>>,
    <<<<AddEntries(<<Entry("ok", "ok", "ok", "ok", "ok", "ok", "ok", TRUE, "t4")>>)>>,
      <<>>>>,
    <<<<>>, <<Instruction("null", "", "missing", <<>>)>>>>,
    <<<<>>, <<Instruction("ok", "TimelineAddEntries", "null", <<>>)>>>>,
    <<<<>>, <<Instruction("ok", "TimelineAddEntries", "missing", <<>>)>>>> }

\* A response: how far the path result -> timeline -> instructions exists
\* ("ok": all of it; otherwise the first thing that is absent or no dict),
\* and the instructions.
Response(top, inss) == [top |-> top, instructions |-> inss]

BrokenTops ==
  { "null", "no_result", "result_null", "no_timeline", "timeline_null",
    "no_instructions", "instructions_null" }

\* the tweet dict built from an entry's legacy data, with the '' and {}
\* defaults of .get for what is absent
tweet_of(e) ==
  IF e.legacy = "missing"
    THEN Tweet(TRUE, "", TRUE, Malformed, <<>>)
           @@ [full_text |-> <<>>, user_id_str |-> "", mention_ids |-> <<>>,
               user_screen_name |->
                 IF e.core = "missing" THEN <<>> ELSE e.user_screen_name]
    ELSE Tweet(TRUE, IF e.has_id_str THEN e.id_str ELSE "", TRUE,
               e.created_at, e.user_mentions)
           @@ [full_text |-> e.full_text, user_id_str |-> e.user_id_str,
               mention_ids |-> e.mention_ids,
               user_screen_name |->
                 IF e.core = "missing" THEN <<>> ELSE e.user_screen_name]

\* extract_entry without the __typename test on tweet_results.result
extract_entry_noguard(e) ==
  IF e.self = "null" THEN "raise"
  ELSE IF e.content = "null" THEN "raise"
  ELSE IF e.content # "ok" THEN "skip"
  ELSE IF e.itemContent = "null" THEN "raise"
  ELSE IF e.itemContent # "ok" THEN "skip"
  ELSE IF e.tweet_results = "null" THEN "raise"
  ELSE IF e.tweet_results # "ok" THEN "skip"
  ELSE IF e.result = "null" THEN "raise"
  ELSE IF e.result = "missing" THEN "skip"
  ELSE IF e.core = "null" THEN "raise"
  ELSE IF e.legacy = "null" THEN "raise"
  ELSE "emit"

\* the body of the loop over entries: "emit" when a tweet is appended, "skip"
\* when a guard fails, "raise" when .get is called on something that is no
\* dict (AttributeError)
extract_entry(e) ==
  IF e.self = "null" THEN "raise"
  ELSE IF e.content = "null" THEN "raise"
  ELSE IF e.content # "ok" THEN "skip"
  ELSE IF e.itemContent = "null" THEN "raise"
  ELSE IF e.itemContent # "ok" THEN "skip"
  ELSE IF e.tweet_results = "null" THEN "raise"
  ELSE IF e.tweet_results # "ok" THEN "skip"
  ELSE IF e.result = "null" THEN "raise"
  ELSE IF e.result # "ok" THEN "skip"
  ELSE IF e.core = "null" THEN "raise"
  ELSE IF e.legacy = "null" THEN "raise"
  ELSE "emit"

\* the loop over the entries of one instruction
RECURSIVE extract_entries(_)
extract_entries(es) ==
  IF es = <<>> THEN [raised |-> FALSE, value |-> <<>>]
  ELSE LET k == extract_entry(Head(es)) IN
       IF k = "raise" THEN [raised |-> TRUE, value |-> <<>>]
       ELSE LET rest == extract_entries(Tail(es)) IN
            IF rest.raised THEN rest
            ELSE [raised |-> FALSE,
                  value |-> (IF k = "emit" THEN <<tweet_of(Head(es))>> ELSE <<>>)
                              \o rest.value]

\* the body of the loop over instructions
extract_instruction(ins) ==
  IF ins.self = "null" THEN [raised |-> TRUE, value |-> <<>>]
  ELSE IF ins.type # "TimelineAddEntries" THEN [raised |-> FALSE, value |-> <<>>]
  ELSE IF ins.entries = "null" THEN [raised |-> TRUE, value |-> <<>>]
  ELSE IF ins.entries = "missing" THEN [raised |-> FALSE, value |-> <<>>]
  ELSE extract_entries(ins.list)

RECURSIVE extract_instructions(_)
extract_instructions(inss) ==
  IF inss = <<>> THEN [raised |-> FALSE, value |-> <<>>]
  ELSE LET h == extract_instruction(Head(inss)) IN
       IF h.raised THEN h
       ELSE LET rest == extract_instructions(Tail(inss)) IN
            IF rest.raised THEN rest
            ELSE [raised |-> FALSE, value |-> h.value \o rest.value]

\* the try body of _extract_tweets_from_response
extract_try(resp) ==
  IF resp.top \in {"null", "result_null", "timeline_null", "instructions_null"}
    THEN [raised |-> TRUE, value |-> <<>>]
  ELSE IF resp.top \in {"no_result", "no_timeline", "no_instructions"}
    THEN [raised |-> FALSE, value |-> <<>>]
  ELSE extract_instructions(resp.instructions)

\* _extract_tweets_from_response without its except clause
extract_tweets_from_response_nocatch(resp) == extract_try(resp)

\* _extract_tweets_from_response: the try body and `except Exception`, which
\* returns []
extract_tweets_from_response(resp) ==
  LET b == extract_try(resp) IN
  IF b.raised THEN [raised |-> FALSE, value |-> <<>>] ELSE b

\* search_twitter hands the decoded body of a 200 response to the extractor.
ExtractTweets ==
  /\ xpc = "ready"
  /\ LET r == extract_tweets_from_response(response_data) IN
       /\ extracted' = r.value
       /\ xpc' = IF r.raised THEN "raised" ELSE "returned"
  /\ UNCHANGED response_data
  /\ UNCHANGED not_xvars

ExtractInit ==
  /\ xpc = "ready"
  /\ response_data \in
       { Response(t, <<>>) : t \in BrokenTops }
       \cup { Response("ok", w[1] \o <<AddEntries(es)>> \o w[2]) :
                w \in Wrappers, es \in SeqsUpTo(EntryPool, MaxEntries) }
  /\ extracted = <<>>

InitExtract ==
  DispatchInit /\ FilterOff /\ ExtractInit /\ StartOff /\ ChatOff /\ PollOff
    /\ WindowOff
    /\ IdentityOff
    /\ OrchOff
    /\ SignOff

NextExtract == ExtractTweets

ExtractSpec == InitExtract /\ [][NextExtract]_vars

-----------------------------------------------------------------------------
(* Startup: BotManager.start_twitter_bot and TwitterBot.__init__.  The      *)
(* constructor is a synchronous function of its arguments; the orchestrator *)
(* runs it inside a try and starts the poller thread after it returned.     *)

MaxPolls == 2

\* a credential as the settings hold it: unset, empty, or a value
CredValues == {Null, "", "key"}

\* Python truthiness of a `str | None`
Falsy(v) == v = Null \/ v = ""

Settings ==
  [enable_twitter : BOOLEAN,
   x_api_key : CredValues, x_api_key_secret : CredValues,
   x_access_token : CredValues, x_access_token_secret : CredValues,
   rapidapi_key : CredValues]

\* the keyword arguments of TwitterBot(...) taken as they are from the settings
CtorArgs(s) ==
  [api_key |-> s.x_api_key, api_secret |-> s.x_api_key_secret,
   access_token |-> s.x_access_token, access_secret |-> s.x_access_token_secret,
   rapidapi_key |-> s.rapidapi_key]

\* `settings.rapidapi_key or ""`
OrEmpty(v) == IF Falsy(v) THEN "" ELSE v

\* TwitterBot.__init__ without the RapidAPI key check
TwitterBot_init_norapid(a) ==
  IF Falsy(a.api_key) \/ Falsy(a.api_secret) \/ Falsy(a.access_token)
       \/ Falsy(a.access_secret)
    THEN Raise("ValueError")
    ELSE Return(a)

\* TwitterBot.__init__: `not all([...])` over the four API credentials, then
\* `not self.rapidapi_key`; both raise ValueError
TwitterBot_init(a) ==
  IF Falsy(a.api_key) \/ Falsy(a.api_secret) \/ Falsy(a.access_token)
       \/ Falsy(a.access_secret)
    THEN Raise("ValueError")
  ELSE IF Falsy(a.rapidapi_key)
    THEN Raise("ValueError")
    ELSE Return(a)

\* the body of start_twitter_bot up to its return or the exception that
\* leaves its try block
start_twitter_bot_try(s, ai) ==
  IF ~s.enable_twitter THEN [ret |-> FALSE, ctor |-> Null, thread |-> FALSE]
  ELSE IF Falsy(s.x_api_key) \/ Falsy(s.x_api_key_secret)
            \/ Falsy(s.x_access_token) \/ Falsy(s.x_access_token_secret)
    THEN [ret |-> FALSE, ctor |-> Null, thread |-> FALSE]
  ELSE IF ai = Null
    \* the assert fails; `except Exception` returns False
    THEN [ret |-> FALSE, ctor |-> Null, thread |-> FALSE]
  ELSE LET b == TwitterBot_init(
                  [CtorArgs(s) EXCEPT !.rapidapi_key = OrEmpty(s.rapidapi_key)])
       IN IF b.act = "raise"
            \* `except ValueError` returns False
            THEN [ret |-> FALSE, ctor |-> b.exc, thread |-> FALSE]
            ELSE [ret |-> TRUE, ctor |-> Null, thread |-> TRUE]

\* A direct construction TwitterBot(**credentials).
Construct ==
  /\ spc = "ready"
  /\ LET b == TwitterBot_init(CtorArgs(settings)) IN
       /\ spc' = IF b.act = "raise" THEN "ctor_raised" ELSE "constructed"
       /\ ctor_error' = IF b.act = "raise" THEN b.exc ELSE Null
  /\ UNCHANGED <<settings, ai_provider, twitter_thread, active_bots,
                 start_result, network_calls>>
  /\ UNCHANGED not_svars

\* BotManager.start_twitter_bot, the whole call.
StartTwitterBot ==
  /\ spc = "ready"
  /\ LET r == start_twitter_bot_try(settings, ai_provider) IN
       /\ ctor_error' = r.ctor
       /\ twitter_thread' = IF r.thread THEN "TwitterBotThread" ELSE Null
       /\ active_bots' = IF r.thread THEN Append(active_bots, "Twitter")
                                     ELSE active_bots
       /\ start_result' = r.ret
  /\ spc' = "start_returned"
  /\ UNCHANGED <<settings, ai_provider, network_calls>>
  /\ UNCHANGED not_svars

\* The poller thread (TwitterBot.start -> monitor_mentions) issues a search
\* request.
ThreadPoll ==
  /\ twitter_thread # Null
  /\ network_calls < MaxPolls
  /\ network_calls' = network_calls + 1
  /\ UNCHANGED <<spc, settings, ai_provider, ctor_error, twitter_thread,
                 active_bots, start_result>>
  /\ UNCHANGED not_svars

StartInit ==
  /\ spc = "ready"
  /\ settings \in Settings
  /\ ai_provider \in {Null, "GeminiProvider"}
  /\ ctor_error = Null
  /\ twitter_thread = Null
  /\ active_bots = <<>>
  /\ start_result = Null
  /\ network_calls = 0

InitStart ==
  DispatchInit /\ FilterOff /\ ExtractOff /\ StartInit /\ ChatOff /\ PollOff
    /\ WindowOff
    /\ IdentityOff
    /\ OrchOff
    /\ SignOff

NextStart ==
  \/ Construct
  \/ StartTwitterBot
  \/ ThreadPoll

StartSpec == InitStart /\ [][NextStart]_vars

-----------------------------------------------------------------------------
(* ChatHandler: TelegramBot.handle_message, one action per await point.     *)
(* Texts are sequences of one-character strings.                            *)

MaxEntities == 1
MaxClock == 2

BotId == 99
\* what get_me returns
BotIdentity == [id |-> BotId, username |-> <<"B">>]
\* self.me = None
NoIdentity == [id |-> 0, username |-> <<>>]
\* an absent user (effective_user, reply_to_message or its from_user is None)
NoUser == 0

UserIds == {1, 2}
PrivateChatId == 100
GroupChatId == 200
ChatTypes == {"private", "supergroup"}
ChatIds == {PrivateChatId, GroupChatId}

Hello == <<"H", "e", "l", "l", "o">>
ResponseText == "ai_response.text"
FallbackText == "I'm having trouble processing your request. Please try again later."
NotAuthorizedText == "Sorry, you're not authorized to use this bot."

Min(a, b) == IF a < b THEN a ELSE b

\* s[i:j] for 0 <= i <= j
slice(s, i, j) == SubSeq(s, i + 1, Min(j, Len(s)))

startswith(s, prefix) ==
  Len(s) >= Len(prefix) /\ SubSeq(s, 1, Len(prefix)) = prefix

\* str.find: the lowest 0-based index where sub occurs, or -1
find(s, sub) ==
  LET hits == { i \in 0..(Len(s) - Len(sub)) : slice(s, i, i + Len(sub)) = sub }
  IN IF hits = {} THEN -1 ELSE CHOOSE i \in hits : \A j \in hits : i <= j

\* `sub in s`
contains(s, sub) == find(s, sub) >= 0

\* str.replace(old, ""), old not empty: every non-overlapping occurrence of
\* old, scanning from the left, is removed
RECURSIVE replace(_, _)
replace(s, old) ==
  IF Len(s) < Len(old) THEN s
  ELSE IF startswith(s, old)
    THEN replace(SubSeq(s, Len(old) + 1, Len(s)), old)
    ELSE <<Head(s)>> \o replace(Tail(s), old)

RECURSIVE lstrip(_)
lstrip(s) == IF s # <<>> /\ Head(s) = " " THEN lstrip(Tail(s)) ELSE s

RECURSIVE rstrip(_)
rstrip(s) ==
  IF s # <<>> /\ s[Len(s)] = " " THEN rstrip(SubSeq(s, 1, Len(s) - 1)) ELSE s

\* str.strip()
strip(s) == rstrip(lstrip(s))

\* message texts: "", " h ", "b", "@b", "@B h", "h @b", "h @b h", "@b @b",
\* "@B @b", "@h @b"
TextPool ==
  { <<>>,
    <<" ", "h", " ">>,
    <<"b">>,
    <<"@", "b">>,
    <<"@", "B", " ", "h">>,
    <<"h", " ", "@", "b">>,
    <<"h", " ", "@", "b", " ", "h">>,
    <<"@", "b", " ", "@", "b">>,
    <<"@", "B", " ", "@", "b">>,
    <<"@", "h", " ", "@", "b">> }

MessageEntity(type, offset, length) ==
  [type |-> type, offset |-> offset, length |-> length]

EntityPool ==
  { MessageEntity("mention", 0, 2),
    MessageEntity("mention", 2, 2),
    MessageEntity("mention", 3, 2),
    MessageEntity("bold", 0, 2) }

\* an Update: effective_user.id (NoUser when absent), effective_chat.type,
\* message.text, message.entities, reply_to_message.from_user.id (NoUser when
\* the message is no reply or the replied-to message has no sender)
Update(has_message, user, chat_type, text, entities, reply_from) ==
  [has_message |-> has_message, user |-> user, chat_type |-> chat_type,
   text |-> text, entities |-> entities, reply_from |-> reply_from]

Updates ==
  { Update(TRUE, u, ct, tx, es, rf) :
      u \in UserIds, ct \in ChatTypes, tx \in TextPool,
      es \in SeqsUpTo(EntityPool, MaxEntities), rf \in {NoUser, BotId, 1} }
  \cup { Update(FALSE, 1, "supergroup", <<>>, <<>>, NoUser),
         Update(TRUE, NoUser, "supergroup", <<"h">>, <<>>, NoUser) }

\* no update is being handled
NoUpdate == Update(FALSE, NoUser, "none", <<>>, <<>>, NoUser)

chat_id(u) == IF u.chat_type = "private" THEN PrivateChatId ELSE GroupChatId

\* _is_user_allowed with an empty allow-list denying everybody
is_user_allowed_strict(ids, user_id) == user_id \in ids

\* _is_user_allowed
is_user_allowed(ids, user_id) ==
  IF ids = {} THEN TRUE ELSE user_id \in ids

\* is_group_chat for every chat type
is_group_chat_any(chat_type) == TRUE

is_group_chat(chat_type) == chat_type \in {"group", "supergroup", "channel"}

\* is_private_chat for every chat type
is_private_chat_any(chat_type) == TRUE

is_private_chat(chat_type) == chat_type = "private"

Detection(text, hit, by) ==
  [text |-> text, mentioned |-> hit, by |-> by]

\* 1. the loop over message.entities
RECURSIVE detect_entities(_, _, _)
detect_entities(entities, text, username) ==
  IF entities = <<>> THEN Detection(text, FALSE, "none")
  ELSE
    LET entity == Head(entities)
        mention_text == slice(text, entity.offset, entity.offset + entity.length)
        bot_username == lower(username)
        mention_without_at ==
          IF startswith(mention_text, <<"@">>)
            THEN lower(Tail(mention_text))
            ELSE lower(mention_text)
    IN IF entity.type = "mention" /\ mention_without_at = bot_username
         THEN Detection(strip(replace(text, mention_text)), TRUE, "entity")
         ELSE detect_entities(Tail(entities), text, username)

\* 2. the loop over mention_variations
RECURSIVE detect_variations(_, _)
detect_variations(variations, text) ==
  IF variations = <<>> THEN Detection(text, FALSE, "none")
  ELSE
    LET variation == Head(variations) IN
    IF contains(lower(text), lower(variation))
      THEN
        LET idx == find(lower(text), lower(variation))
            actual_mention == slice(text, idx, idx + Len(variation))
        IN Detection(strip(replace(text, actual_mention)), TRUE, "text")
      ELSE detect_variations(Tail(variations), text)

\* detect_text without the `not is_mentioned` test
detect_text_unguarded(d, username) ==
  LET t == detect_variations(
             << <<"@">> \o username, <<"@">> \o lower(username) >>, d.text)
  IN IF t.mentioned THEN t ELSE d

detect_text(d, username) ==
  IF d.mentioned THEN d
  ELSE detect_variations(
         << <<"@">> \o username, <<"@">> \o lower(username) >>, d.text)

\* 3. reply to a message of the bot
detect_reply(d, reply_from, bot_id) ==
  IF ~d.mentioned /\ reply_from # NoUser /\ reply_from = bot_id
    THEN Detection(d.text, TRUE, "reply")
    ELSE d

\* the `if is_group_chat:` block up to the detection result
detect(u, m) ==
  IF is_group_chat(u.chat_type)
    THEN detect_reply(
           detect_text(detect_entities(u.entities, u.text, m.username),
                       m.username),
           u.reply_from, m.id)
    ELSE Detection(u.text, FALSE, "none")

\* not_addressed that never drops
not_addressed_never(u, d) == FALSE

\* `if not is_mentioned: return` inside the group block
not_addressed(u, d) == is_group_chat(u.chat_type) /\ ~d.mentioned

\* greeting that keeps an empty text
greeting_never(u, text) == text

\* `if not message_text: message_text = "Hello"` inside the group block
greeting(u, text) ==
  IF is_group_chat(u.chat_type) /\ text = <<>> THEN Hello ELSE text

Position(p, x, d, text) ==
  [pc |-> p, exit |-> x, text |-> text, mentioned |-> d.mentioned, by |-> d.by]

\* handle_message from the text check to the first await after it, with the
\* identity m resolved
after_identity(u, m, ids) ==
  IF u.text = <<>>
    THEN Position("done", "no_text", Detection(<<>>, FALSE, "none"), <<>>)
  ELSE
    LET d == detect(u, m) IN
    IF not_addressed(u, d) THEN Position("done", "not_mentioned", d, d.text)
    ELSE IF ~is_user_allowed(ids, u.user)
      THEN IF is_private_chat(u.chat_type)
             THEN Position("notice", "none", d, greeting(u, d.text))
             ELSE Position("done", "unauthorized", d, greeting(u, d.text))
      ELSE Position("typing", "none", d, greeting(u, d.text))

GoTo(p) ==
  /\ tpc' = p.pc
  /\ exit' = p.exit
  /\ message_text' = p.text
  /\ is_mentioned' = p.mentioned
  /\ matched_by' = p.by

\* TelegramBot.initialize: get_me succeeds or raises TelegramError
Initialize(ok) ==
  /\ tpc = "init"
  /\ me' = IF ok THEN BotIdentity ELSE NoIdentity
  /\ tpc' = "idle"
  /\ UNCHANGED <<allowed_user_ids, last_processed_time, clock, update,
                 message_text, is_mentioned, matched_by, typing_actions,
                 prompts, replies, exit, last_processed_before>>
  /\ UNCHANGED not_tvars

\* handle_message is called with an update and runs to its first await
HandleMessage(u) ==
  /\ tpc = "idle"
  /\ clock < MaxClock
  /\ update' = u
  /\ last_processed_before' = last_processed_time
  /\ IF ~u.has_message \/ u.user = NoUser
       THEN GoTo(Position("done", "no_message",
                          Detection(<<>>, FALSE, "none"), <<>>))
     ELSE IF me = NoIdentity
       THEN GoTo(Position("get_me", "none",
                          Detection(<<>>, FALSE, "none"), <<>>))
       ELSE GoTo(after_identity(u, me, allowed_user_ids))
  /\ UNCHANGED <<allowed_user_ids, me, last_processed_time, clock,
                 typing_actions, prompts, replies>>
  /\ UNCHANGED not_tvars

\* `self.me = await context.bot.get_me()` and what follows it
GetMe(ok) ==
  /\ tpc = "get_me"
  /\ IF ok
       THEN /\ me' = BotIdentity
            /\ GoTo(after_identity(update, BotIdentity, allowed_user_ids))
       ELSE /\ me' = me
            /\ GoTo(Position("done", "no_identity",
                             Detection(<<>>, FALSE, "none"), <<>>))
  /\ UNCHANGED <<allowed_user_ids, last_processed_time, clock, update,
                 typing_actions, prompts, replies, last_processed_before>>
  /\ UNCHANGED not_tvars

\* the not-authorized notice of a private chat; an exception of reply_text
\* leaves the handler
SendNotice(ok) ==
  /\ tpc = "notice"
  /\ replies' = IF ok THEN Append(replies, NotAuthorizedText) ELSE replies
  /\ tpc' = "done"
  /\ exit' = IF ok THEN "unauthorized" ELSE "raised"
  /\ UNCHANGED <<allowed_user_ids, me, last_processed_time, clock, update,
                 message_text, is_mentioned, matched_by, typing_actions,
                 prompts, last_processed_before>>
  /\ UNCHANGED not_tvars

\* send_chat_action, then the synchronous generate_content call and the
\* bookkeeping, up to `await reply_text`
SendTyping(ok, generated) ==
  /\ tpc = "typing"
  /\ IF ~ok
       THEN /\ tpc' = "fallback"
            /\ UNCHANGED <<typing_actions, prompts, last_processed_time, clock>>
       ELSE /\ typing_actions' = typing_actions + 1
            /\ prompts' = Append(prompts, message_text)
            /\ IF generated
                 THEN /\ clock' = clock + 1
                      /\ last_processed_time' =
                           [last_processed_time EXCEPT
                              ![chat_id(update)] = clock + 1]
                      /\ tpc' = "reply"
                 ELSE /\ tpc' = "fallback"
                      /\ UNCHANGED <<last_processed_time, clock>>
  /\ UNCHANGED <<allowed_user_ids, me, update, message_text, is_mentioned,
                 matched_by, replies, exit, last_processed_before>>
  /\ UNCHANGED not_tvars

\* `await update.message.reply_text(response_text)`
SendReply(ok) ==
  /\ tpc = "reply"
  /\ IF ok
       THEN /\ replies' = Append(replies, ResponseText)
            /\ tpc' = "done"
            /\ exit' = "replied"
       ELSE /\ tpc' = "fallback"
            /\ UNCHANGED <<replies, exit>>
  /\ UNCHANGED <<allowed_user_ids, me, last_processed_time, clock, update,
                 message_text, is_mentioned, matched_by, typing_actions,
                 prompts, last_processed_before>>
  /\ UNCHANGED not_tvars

\* an except branch that only logs
SendFallback_silent(ok) ==
  /\ tpc = "fallback"
  /\ replies' = replies
  /\ tpc' = "done"
  /\ exit' = IF ok THEN "fallback" ELSE "raised"
  /\ UNCHANGED <<allowed_user_ids, me, last_processed_time, clock, update,
                 message_text, is_mentioned, matched_by, typing_actions,
                 prompts, last_processed_before>>
  /\ UNCHANGED not_tvars

\* the except branch: reply_text with the fallback text; its exception
\* leaves the handler
SendFallback(ok) ==
  /\ tpc = "fallback"
  /\ replies' = IF ok THEN Append(replies, FallbackText) ELSE replies
  /\ tpc' = "done"
  /\ exit' = IF ok THEN "fallback" ELSE "raised"
  /\ UNCHANGED <<allowed_user_ids, me, last_processed_time, clock, update,
                 message_text, is_mentioned, matched_by, typing_actions,
                 prompts, last_processed_before>>
  /\ UNCHANGED not_tvars

\* the handler is over and the application waits for the next update
HandlerReturns ==
  /\ tpc = "done"
  /\ tpc' = "idle"
  /\ update' = NoUpdate
  /\ message_text' = <<>>
  /\ is_mentioned' = FALSE
  /\ matched_by' = "none"
  /\ typing_actions' = 0
  /\ prompts' = <<>>
  /\ replies' = <<>>
  /\ exit' = "none"
  /\ last_processed_before' = last_processed_time
  /\ UNCHANGED <<allowed_user_ids, me, last_processed_time, clock>>
  /\ UNCHANGED not_tvars

\* TelegramBot.__init__: `allowed_user_ids or []`, me None, no chat processed
ChatInit ==
  /\ tpc = "init"
  /\ allowed_user_ids \in {{}, {1}}
  /\ me = NoIdentity
  /\ last_processed_time = [c \in ChatIds |-> 0]
  /\ clock = 0
  /\ update = NoUpdate
  /\ message_text = <<>>
  /\ is_mentioned = FALSE
  /\ matched_by = "none"
  /\ typing_actions = 0
  /\ prompts = <<>>
  /\ replies = <<>>
  /\ exit = "none"
  /\ last_processed_before = [c \in ChatIds |-> 0]

InitChat ==
  DispatchInit /\ FilterOff /\ ExtractOff /\ StartOff /\ ChatInit /\ PollOff
    /\ WindowOff
    /\ IdentityOff
    /\ OrchOff
    /\ SignOff

NextChat ==
  \/ \E ok \in BOOLEAN : Initialize(ok)
  \/ \E u \in Updates : HandleMessage(u)
  \/ \E ok \in BOOLEAN : GetMe(ok)
  \/ \E ok \in BOOLEAN : SendNotice(ok)
  \/ \E ok \in BOOLEAN, generated \in BOOLEAN : SendTyping(ok, generated)
  \/ \E ok \in BOOLEAN : SendReply(ok)
  \/ \E ok \in BOOLEAN : SendFallback(ok)
  \/ HandlerReturns

ChatSpec == InitChat /\ [][NextChat]_vars

-----------------------------------------------------------------------------
(* MentionPoller: TwitterBot.monitor_mentions with search_twitter,          *)
(* process_tweets and handle_mention, one action per await point and one    *)
(* for the call of the generator.                                           *)

MaxBodyEntries == 2

\* max_chars of handle_mention
MaxChars == 280

\* the monitored handles "@ab" and "@cb"
Handle1 == <<"@", "a", "b">>
Handle2 == <<"@", "c", "b">>

\* accounts_to_monitor as configured
AccountLists == { <<Handle1>>, <<Handle1, Handle2>> }

\* what time.time() reads when process_tweets runs; the creation times of
\* the entries of a response are taken relative to it
FilterTime == 1000

\* lengths of the texts the generator returns
GenLengths == {280, 281, 300}

\* a text of `chars` characters of the generated text, followed by "..." or
\* not
Text(chars, dots) == [chars |-> chars, dots |-> dots]

len(t) == t.chars + (IF t.dots THEN 3 ELSE 0)

\* what generate_content does: returns a text or raises
GenOutcomes ==
  { [ok |-> FALSE, text |-> Text(0, FALSE)] }
  \cup { [ok |-> TRUE, text |-> Text(n, FALSE)] : n \in GenLengths }

\* gen_result while no handle_mention is in progress
NoGen == [ok |-> TRUE, text |-> Text(0, FALSE)]

\* the entries a search response may hold at time now: a mention of "@ab"
\* made 5 seconds ago, one of "@cb" and "@ab" made 5 seconds ago, one
\* whose created_at is null, and a mention of "@ab" made 5 seconds ago whose
\* legacy object has no id_str
PollEntries(now) ==
  { [Entry("ok", "ok", "ok", "ok", "ok", "ok", "ok", TRUE, "t1")
       EXCEPT !.created_at = CreatedAt(TRUE, now - 5, 0)],
    [Entry("ok", "ok", "ok", "ok", "ok", "ok", "ok", TRUE, "t2")
       EXCEPT !.created_at = CreatedAt(TRUE, now - 5, 0),
              !.user_mentions = << <<"c", "b">>, <<"a", "b">> >>,
              !.mention_ids = <<"u8", "u1">>,
              !.full_text = <<"@", "c", "b", " ", "@", "a", "b">>],
    [Entry("ok", "ok", "ok", "ok", "ok", "ok", "ok", TRUE, "t4")
       EXCEPT !.created_at = NotAString],
    [Entry("ok", "ok", "ok", "ok", "ok", "ok", "ok", FALSE, "")
       EXCEPT !.created_at = CreatedAt(TRUE, now - 5, 0)] }

\* the decoded bodies of a 200 search response
Bodies(now) ==
  { Response("no_result", <<>>), Response("null", <<>>) }
  \cup { Response("ok", <<AddEntries(es)>>) :
           es \in { s \in SeqsUpTo(PollEntries(now), MaxBodyEntries) :
                      \A a, b \in 1..Len(s) : s[a] = s[b] => a = b } }

\* how a search request ends: a status (with the body of a 200), or an
\* exception
SearchFailures ==
  { [kind |-> "status", status |-> st, body |-> Response("null", <<>>)] :
      st \in {429, 500} }
  \cup { [kind |-> "error", status |-> 0, body |-> Response("null", <<>>)] }

SearchOutcomes(now) ==
  { [kind |-> "status", status |-> 200, body |-> b] : b \in Bodies(now) }
  \cup SearchFailures

\* how a reply request ends
PollReplyOutcomes ==
  { [kind |-> "status", status |-> 201, id |-> "1001"],
    [kind |-> "status", status |-> 500, id |-> NoId],
    [kind |-> "error", status |-> 0, id |-> NoId] }

\* the try body of search_twitter retrying after a 5xx as well
search_twitter_try_5xx(rc, mr, o) ==
  IF o.kind = "error" THEN Raise("Exception")
  ELSE IF o.status = 200
    THEN Return(extract_tweets_from_response(o.body).value)
  ELSE IF o.status \in {429, 500} /\ rc < mr THEN Retry((2 ^ rc) * 2)
  ELSE Return(<<>>)

\* the try body of search_twitter at retry_count rc
search_twitter_try(rc, mr, o) ==
  IF o.kind = "error" THEN Raise("Exception")
  ELSE IF o.status = 200
    THEN Return(extract_tweets_from_response(o.body).value)
  ELSE IF o.status = 429 /\ rc < mr THEN Retry((2 ^ rc) * 2)
  ELSE Return(<<>>)

\* one call level of search_twitter: `except Exception` returns []
search_twitter(rc, mr, o) ==
  LET b == search_twitter_try(rc, mr, o) IN
  IF b.act = "raise" /\ b.exc \in ExceptionClasses THEN Return(<<>>) ELSE b

\* the loop without the strip() after each replace
RECURSIVE clean_text_nostrip(_, _)
clean_text_nostrip(text, ms) ==
  IF ms = <<>> THEN text
  ELSE clean_text_nostrip(replace(text, <<"@">> \o Head(ms)), Tail(ms))

\* the loop that removes "@screen_name" of every user mention from the text
RECURSIVE clean_text(_, _)
clean_text(text, ms) ==
  IF ms = <<>> THEN text
  ELSE clean_text(strip(replace(text, <<"@">> \o Head(ms))), Tail(ms))

\* the loop that looks for the author among the user mentions
RECURSIVE fallback_username(_, _, _)
fallback_username(ms, ids, user_id_str) ==
  IF ms = <<>> THEN <<"u", "s", "e", "r">>
  ELSE IF Head(ids) = user_id_str THEN Head(ms)
  ELSE fallback_username(Tail(ms), Tail(ids), user_id_str)

\* truncate that cuts to max_chars and then appends the ellipsis
truncate_late(text) ==
  IF len(text) > MaxChars THEN Text(MaxChars, TRUE) ELSE text

\* `if len(response_text) > max_chars: response_text[:max_chars - 3] + "..."`
truncate(text) ==
  IF len(text) > MaxChars THEN Text(MaxChars - 3, TRUE) ELSE text

\* a text handed to post_reply for tweet_id: a generated (maybe truncated)
\* text, or the fallback addressed to username
Reply(kind, text, username, tweet_id) ==
  [kind |-> kind, text |-> text, username |-> username, to |-> tweet_id]

NoReply == Reply("none", Text(0, FALSE), <<>>, "")

\* what post_reply returned for a reply of the given kind
Result(kind, value) == [kind |-> kind, value |-> value]

\* no post_reply has just returned
Unset == Result("none", Null)

\* the length of the fallback reply without the username
FallbackChars == 102

\* handle_mention that lets the generator's exception go
handle_mention_nocatch(tweet, g) ==
  LET prompt == clean_text(tweet.full_text, tweet.user_mentions) IN
  IF g.ok
    THEN [prompt |-> prompt, raised |-> FALSE,
          reply |-> Reply("generated", truncate(g.text), <<>>, tweet.id_str)]
    ELSE [prompt |-> prompt, raised |-> TRUE, reply |-> NoReply]

\* handle_mention up to its first await: the text for the generator, and the
\* reply handed to post_reply
handle_mention(tweet, g) ==
  LET prompt == clean_text(tweet.full_text, tweet.user_mentions)
      username == fallback_username(tweet.user_mentions, tweet.mention_ids,
                                    tweet.user_id_str)
  IN IF g.ok
       THEN [prompt |-> prompt, raised |-> FALSE,
             reply |-> Reply("generated", truncate(g.text), <<>>, tweet.id_str)]
       ELSE [prompt |-> prompt, raised |-> FALSE,
             reply |-> Reply("fallback", Text(FallbackChars + Len(username), FALSE),
                             username, tweet.id_str)]

Event(kind, idx, what) == [kind |-> kind, idx |-> idx, what |-> what]

RECURSIVE ids_of(_)
ids_of(tws) == IF tws = <<>> THEN <<>> ELSE <<Head(tws).id_str>> \o ids_of(Tail(tws))

\* the loop over new_mentions taking the last mention first
current_last(q) == q[Len(q)]

\* `for tweet in new_mentions`: the mention the loop is at, q being the
\* mentions not replied to yet
current(q) == Head(q)

\* the default of search_twitter's max_retries parameter
SearchMaxRetries == 3

\* where the loop goes when the mentions of the current account are done:
\* the 1 s sleep with more than one account, else the sleep that ends the
\* cycle
after_mentions(accts) ==
  IF Len(accts) > 1 THEN "handle_sleep" ELSE "cycle_sleep"

\* the search request of the current account completes with outcome o;
\* search_twitter backs off or returns, and process_tweets runs on what it
\* returned
SearchRespond(o) ==
  /\ ppc = "search"
  /\ LET r == search_twitter(search_rc, SearchMaxRetries, o)
         searched == Append(plog, Event("search", acct_idx,
                              IF r.act = "retry" THEN <<>> ELSE ids_of(r.value)))
     IN IF r.act = "retry"
          THEN /\ ppc' = "search_sleep"
               /\ backoff' = r.delay
               /\ plog' = searched
               /\ UNCHANGED queue
          ELSE LET f == process_tweets(r.value,
                                       accounts_to_monitor[acct_idx], FilterTime)
               IN /\ backoff' = 0
                  /\ IF f.raised
                       THEN /\ ppc' = "error_sleep"
                            /\ queue' = <<>>
                            /\ plog' = Append(searched,
                                              Event("error", acct_idx, <<>>))
                       ELSE /\ queue' = f.value
                            /\ plog' = Append(searched,
                                 Event("filter", acct_idx, ids_of(f.value)))
                            /\ ppc' = IF f.value # <<>> THEN "handle"
                                      ELSE after_mentions(accounts_to_monitor)
  /\ reply_result' = Unset
  /\ UNCHANGED <<accounts_to_monitor, acct_idx, search_rc, reply_rc, reply,
                 gen_prompt, gen_result, slept>>
  /\ UNCHANGED not_pvars

\* `await asyncio.sleep(retry_delay)` of search_twitter, then the recursive
\* call
SearchSleep ==
  /\ ppc = "search_sleep"
  /\ slept' = backoff
  /\ search_rc' = search_rc + 1
  /\ backoff' = 0
  /\ ppc' = "search"
  /\ reply_result' = Unset
  /\ UNCHANGED <<accounts_to_monitor, acct_idx, queue, reply_rc, reply,
                 gen_prompt, gen_result, plog>>
  /\ UNCHANGED not_pvars

\* handle_mention is called for the next new mention: the generator is
\* called and the reply is handed to post_reply
HandleMention(g) ==
  /\ ppc = "handle"
  /\ queue # <<>>
  /\ LET h == handle_mention(current(queue), g) IN
       /\ gen_prompt' = h.prompt
       /\ gen_result' = g
       /\ IF h.raised
            THEN /\ ppc' = "error_sleep"
                 /\ queue' = <<>>
                 /\ reply' = NoReply
                 /\ plog' = Append(plog, Event("error", acct_idx, <<>>))
            ELSE /\ ppc' = "reply"
                 /\ queue' = queue
                 /\ reply' = h.reply
                 /\ plog' = Append(plog, Event("reply", acct_idx, <<h.reply.to>>))
  /\ reply_rc' = 0
  /\ reply_result' = Unset
  /\ UNCHANGED <<accounts_to_monitor, acct_idx, search_rc, backoff, slept>>
  /\ UNCHANGED not_pvars

\* the request of post_reply completes with outcome o: post_reply backs off
\* or returns, and handle_mention returns with it
ReplyRespond(o) ==
  /\ ppc = "reply"
  /\ LET r == post_reply(reply_rc, DefaultMaxRetries, o) IN
       IF r.act = "retry"
         THEN /\ ppc' = "reply_sleep"
              /\ backoff' = r.delay
              /\ reply_result' = Unset
              /\ UNCHANGED <<queue, reply, reply_rc, plog, gen_result>>
       ELSE IF r.act = "raise" /\ reply.kind = "generated"
         \* an exception of post_reply inside the try: the except branch
         THEN /\ ppc' = "reply"
              /\ backoff' = 0
              /\ reply' = handle_mention(current(queue),
                             [ok |-> FALSE, text |-> Text(0, FALSE)]).reply
              /\ reply_rc' = 0
              /\ reply_result' = Unset
              /\ plog' = Append(plog, Event("reply", acct_idx, <<reply.to>>))
              /\ UNCHANGED <<queue, gen_result>>
       ELSE IF r.act = "raise"
         THEN /\ ppc' = "error_sleep"
              /\ backoff' = 0
              /\ queue' = <<>>
              /\ reply' = NoReply
              /\ reply_rc' = 0
              /\ gen_result' = NoGen
              /\ reply_result' = Unset
              /\ plog' = Append(plog, Event("error", acct_idx, <<>>))
         ELSE /\ backoff' = 0
              /\ reply_result' = Result(reply.kind, r.value)
              /\ queue' = Tail(queue)
              /\ reply' = NoReply
              /\ reply_rc' = 0
              /\ gen_result' = NoGen
              /\ plog' = Append(plog, Event("replied", acct_idx, <<reply.to>>))
              /\ ppc' = IF Tail(queue) # <<>> THEN "handle"
                        ELSE after_mentions(accounts_to_monitor)
  /\ UNCHANGED <<accounts_to_monitor, acct_idx, search_rc, gen_prompt, slept>>
  /\ UNCHANGED not_pvars

\* `await asyncio.sleep(retry_delay)` of post_reply, then the recursive call
ReplySleep ==
  /\ ppc = "reply_sleep"
  /\ slept' = backoff
  /\ reply_rc' = reply_rc + 1
  /\ backoff' = 0
  /\ ppc' = "reply"
  /\ reply_result' = Unset
  /\ UNCHANGED <<accounts_to_monitor, acct_idx, search_rc, queue, reply,
                 gen_prompt, gen_result, plog>>
  /\ UNCHANGED not_pvars

\* `await asyncio.sleep(1)` after an account when more than one is
\* monitored, then the next account or the end of the for loop
HandleSleep ==
  /\ ppc = "handle_sleep"
  /\ slept' = 1
  /\ plog' = Append(plog, Event("sleep", acct_idx, <<>>))
  /\ IF acct_idx < Len(accounts_to_monitor)
       THEN /\ acct_idx' = acct_idx + 1
            /\ ppc' = "search"
       ELSE /\ acct_idx' = acct_idx
            /\ ppc' = "cycle_sleep"
  /\ search_rc' = 0
  /\ reply_result' = Unset
  /\ UNCHANGED <<accounts_to_monitor, backoff, queue, reply_rc, reply,
                 gen_prompt, gen_result>>
  /\ UNCHANGED not_pvars

\* the next iteration of `while True`
new_cycle ==
  /\ acct_idx' = 1
  /\ search_rc' = 0
  /\ ppc' = "search"
  /\ plog' = <<>>
  /\ gen_prompt' = <<>>
  /\ gen_result' = NoGen
  /\ reply_result' = Unset
  /\ UNCHANGED <<accounts_to_monitor, backoff, queue, reply_rc, reply>>
  /\ UNCHANGED not_pvars

\* the sleep at the end of a cycle taking twice the polling interval
CycleSleep_double ==
  /\ ppc = "cycle_sleep"
  /\ slept' = PollingInterval * 2
  /\ new_cycle

\* `await asyncio.sleep(self.polling_interval)` at the end of a cycle
CycleSleep ==
  /\ ppc = "cycle_sleep"
  /\ slept' = PollingInterval
  /\ new_cycle

\* the except clause sleeping the polling interval once
ErrorSleep_single ==
  /\ ppc = "error_sleep"
  /\ slept' = PollingInterval
  /\ new_cycle

\* the except clause of the loop: `await asyncio.sleep(polling_interval * 2)`
ErrorSleep ==
  /\ ppc = "error_sleep"
  /\ slept' = PollingInterval * 2
  /\ new_cycle

PollInit ==
  /\ ppc = "search"
  /\ accounts_to_monitor \in AccountLists
  /\ acct_idx = 1
  /\ search_rc = 0
  /\ backoff = 0
  /\ queue = <<>>
  /\ reply_rc = 0
  /\ reply = NoReply
  /\ gen_prompt = <<>>
  /\ gen_result = NoGen
  /\ plog = <<>>
  /\ slept = 0
  /\ reply_result = Unset

InitPoll ==
  DispatchInit /\ FilterOff /\ ExtractOff /\ StartOff /\ ChatOff /\ PollInit
    /\ WindowOff
    /\ IdentityOff
    /\ OrchOff
    /\ SignOff

NextPoll ==
  \/ \E o \in SearchOutcomes(FilterTime) : SearchRespond(o)
  \/ SearchSleep
  \/ \E g \in GenOutcomes : HandleMention(g)
  \/ \E o \in PollReplyOutcomes : ReplyRespond(o)
  \/ ReplySleep
  \/ HandleSleep
  \/ CycleSleep
  \/ ErrorSleep

PollSpec == InitPoll /\ [][NextPoll]_vars

-----------------------------------------------------------------------------
(* MentionWindow: the cycles of TwitterBot.monitor_mentions for one         *)
(* monitored account and one mention of it, with the clock that the sleeps  *)
(* advance and process_tweets reads.                                        *)

MaxElapsed == 95

\* time.time() when monitoring starts
WindowStart == 1000

\* the times at which the mention may be posted
PostTimes == WindowStart .. (WindowStart + PollingInterval + 5)

\* seconds post_reply may spend in its backoff sleeps before it returns:
\* none, or the first backoff after a 5xx
ReplyDelays == {0, 2}

\* the search entry of the mention of "@ab" posted at time c
MentionEntry(c) ==
  [Entry("ok", "ok", "ok", "ok", "ok", "ok", "ok", TRUE, "t1")
     EXCEPT !.created_at = CreatedAt(TRUE, c, 0)]

\* an entry whose created_at is null
NullDateEntry ==
  [Entry("ok", "ok", "ok", "ok", "ok", "ok", "ok", TRUE, "t4")
     EXCEPT !.created_at = NotAString]

\* what a search may answer at time now when the mention was posted at c:
\* the mention once it exists, alone or after an entry with a null date, a
\* 429, or a 500
WindowOutcomes(now, c) ==
  LET found == IF c <= now THEN <<MentionEntry(c)>> ELSE <<>> IN
  { [kind |-> "status", status |-> 200,
     body |-> Response("ok", <<AddEntries(found)>>)],
    [kind |-> "status", status |-> 200,
     body |-> Response("ok", <<AddEntries(<<NullDateEntry>> \o found)>>)],
    [kind |-> "status", status |-> 429, body |-> Response("null", <<>>)],
    [kind |-> "status", status |-> 500, body |-> Response("null", <<>>)] }

\* the search completes with outcome o; on a result process_tweets runs and
\* every new mention is replied to, post_reply sleeping d seconds in all
WindowSearch(o, d) ==
  /\ wpc = "search"
  /\ LET r == search_twitter(w_rc, SearchMaxRetries, o) IN
     IF r.act = "retry"
       THEN /\ wpc' = "search_sleep"
            /\ wbackoff' = r.delay
            /\ wdelayed' = TRUE
            /\ UNCHANGED <<wclock, dispatches, wmissed>>
       ELSE LET f == process_tweets(r.value, Handle1, wclock) IN
            /\ wbackoff' = 0
            /\ IF f.raised
                 THEN /\ wpc' = "error_sleep"
                      /\ wdelayed' = TRUE
                      /\ UNCHANGED <<wclock, dispatches, wmissed>>
               ELSE IF f.value # <<>>
                 THEN /\ wpc' = "cycle_sleep"
                      /\ dispatches' = dispatches + Len(f.value)
                      /\ wclock' = wclock + d
                      /\ wdelayed' = (wdelayed \/ d > 0)
                      /\ UNCHANGED wmissed
                 ELSE /\ wpc' = "cycle_sleep"
                      /\ wmissed' = (wmissed \/
                                     (r.value # <<>> /\ dispatches = 0))
                      /\ UNCHANGED <<wclock, dispatches, wdelayed>>
  /\ wfailed' = (wfailed \/
                  (o.status # 200 /\
                   search_twitter(w_rc, SearchMaxRetries, o).act # "retry"))
  /\ UNCHANGED <<posted_at, w_rc>>
  /\ UNCHANGED not_wvars

\* `await asyncio.sleep(retry_delay)` of search_twitter, then the recursive
\* call
WindowSearchSleep ==
  /\ wpc = "search_sleep"
  /\ wclock' = wclock + wbackoff
  /\ w_rc' = w_rc + 1
  /\ wbackoff' = 0
  /\ wpc' = "search"
  /\ UNCHANGED <<posted_at, dispatches, wmissed, wdelayed, wfailed>>
  /\ UNCHANGED not_wvars

\* the sleep at the end of a cycle lasting twice the interval
WindowCycleSleep_long ==
  /\ wpc = "cycle_sleep"
  /\ wclock - WindowStart < MaxElapsed
  /\ wclock' = wclock + PollingInterval * 2
  /\ w_rc' = 0
  /\ wpc' = "search"
  /\ UNCHANGED <<posted_at, wbackoff, dispatches, wmissed, wdelayed, wfailed>>
  /\ UNCHANGED not_wvars

\* `await asyncio.sleep(self.polling_interval)`, then the next cycle
WindowCycleSleep ==
  /\ wpc = "cycle_sleep"
  /\ wclock - WindowStart < MaxElapsed
  /\ wclock' = wclock + PollingInterval
  /\ w_rc' = 0
  /\ wpc' = "search"
  /\ UNCHANGED <<posted_at, wbackoff, dispatches, wmissed, wdelayed, wfailed>>
  /\ UNCHANGED not_wvars

\* `await asyncio.sleep(self.polling_interval * 2)`, then the next cycle
WindowErrorSleep ==
  /\ wpc = "error_sleep"
  /\ wclock - WindowStart < MaxElapsed
  /\ wclock' = wclock + PollingInterval * 2
  /\ w_rc' = 0
  /\ wpc' = "search"
  /\ UNCHANGED <<posted_at, wbackoff, dispatches, wmissed, wdelayed, wfailed>>
  /\ UNCHANGED not_wvars

WindowInit ==
  /\ wpc = "search"
  /\ wclock = WindowStart
  /\ posted_at \in PostTimes
  /\ w_rc = 0
  /\ wbackoff = 0
  /\ dispatches = 0
  /\ wmissed = FALSE
  /\ wdelayed = FALSE
  /\ wfailed = FALSE

InitWindow ==
  DispatchInit /\ FilterOff /\ ExtractOff /\ StartOff /\ ChatOff /\ PollOff
    /\ WindowInit
    /\ IdentityOff
    /\ OrchOff
    /\ SignOff

NextWindow ==
  \/ \E o \in WindowOutcomes(wclock, posted_at), d \in ReplyDelays :
       WindowSearch(o, d)
  \/ WindowSearchSleep
  \/ WindowCycleSleep
  \/ WindowErrorSleep

WindowSpec == InitWindow /\ [][NextWindow]_vars

-----------------------------------------------------------------------------
(* BotIdentity: TelegramBot.me, set by initialize and, while it is unset,   *)
(* by handle_message and debug_command; one action per await point of the   *)
(* fetch.                                                                   *)

MaxUpdates == 4

\* the handlers of initialize that fetch the identity
HandlerKinds == {"handle_message", "debug_command"}

\* the updates the application may be working on at a time
Slots == {1, 2}

\* Application.builder().token(...).build() sets no concurrent_updates: the
\* application works on one update at a time
concurrent_updates_on == TRUE

concurrent_updates == FALSE

\* initialize: `self.me = await Bot(self.api_token).get_me()`, None on a
\* TelegramError
IdentityInitialize(ok) ==
  /\ ipc = "init"
  /\ ipc' = "polling"
  /\ cached_me' = IF ok THEN BotIdentity ELSE NoIdentity
  /\ fetched_ok' = fetched_ok + (IF ok THEN 1 ELSE 0)
  /\ UNCHANGED <<handlers, ran, overwritten>>
  /\ UNCHANGED not_ivars

\* the application starts handler k for an update in slot h; the handler
\* runs up to its `if not self.me` and, with me unset, to the await of get_me
HandlerStarts(h, k) ==
  /\ ipc = "polling"
  /\ Len(ran) < MaxUpdates
  /\ handlers[h] = "idle"
  /\ concurrent_updates \/ \A g \in Slots : handlers[g] = "idle"
  /\ handlers' = [handlers EXCEPT ![h] =
                   IF cached_me = NoIdentity THEN "fetching" ELSE "idle"]
  /\ ran' = Append(ran, [kind |-> k, unset |-> cached_me = NoIdentity])
  /\ UNCHANGED <<ipc, cached_me, fetched_ok, overwritten>>
  /\ UNCHANGED not_ivars

\* get_me of the handler in slot h returns (the assignment to self.me) or
\* raises (logged; handle_message returns, debug_command goes on)
HandlerFetched(h, ok) ==
  /\ handlers[h] = "fetching"
  /\ handlers' = [handlers EXCEPT ![h] = "idle"]
  /\ cached_me' = IF ok THEN BotIdentity ELSE cached_me
  /\ fetched_ok' = fetched_ok + (IF ok THEN 1 ELSE 0)
  /\ overwritten' = overwritten +
                      (IF ok /\ cached_me # NoIdentity THEN 1 ELSE 0)
  /\ UNCHANGED <<ipc, ran>>
  /\ UNCHANGED not_ivars

IdentityInit ==
  /\ ipc = "init"
  /\ cached_me = NoIdentity
  /\ handlers = [h \in Slots |-> "idle"]
  /\ ran = <<>>
  /\ fetched_ok = 0
  /\ overwritten = 0

InitIdentity ==
  DispatchInit /\ FilterOff /\ ExtractOff /\ StartOff /\ ChatOff /\ PollOff
    /\ WindowOff /\ IdentityInit
    /\ OrchOff
    /\ SignOff

NextIdentity ==
  \/ \E ok \in BOOLEAN : IdentityInitialize(ok)
  \/ \E h \in Slots, k \in HandlerKinds : HandlerStarts(h, k)
  \/ \E h \in Slots, ok \in BOOLEAN : HandlerFetched(h, ok)

IdentitySpec == InitIdentity /\ [][NextIdentity]_vars

-----------------------------------------------------------------------------
(* Orchestrator: async_start from the point where the bots have been        *)
(* started, with the monitor_bots task, the Twitter thread, the Telegram    *)
(* updater and BotManager.shutdown; one action per await point.             *)

MaxRestarts == 1

\* the order in which start_twitter_bot and start_telegram_bot append
BotLists == { <<>>, <<"Twitter">>, <<"Telegram">>, <<"Twitter", "Telegram">> }

\* list.remove(x)
RECURSIVE remove(_, _)
remove(list, x) ==
  IF list = <<>> THEN <<>>
  ELSE IF Head(list) = x THEN Tail(list)
  ELSE <<Head(list)>> \o remove(Tail(list), x)

in(x, list) == \E j \in 1..Len(list) : list[j] = x

\* the shutdown path has begun: async_start has left its wait loop
ShuttingDown == opc \notin {"off", "waiting"}

\* the Twitter thread ends: TwitterBot.start returns after a fatal error
ThreadEnds ==
  /\ opc # "off"
  /\ thread_is_alive
  /\ thread_is_alive' = FALSE
  /\ UNCHANGED <<opc, bots, monitor_task, running, telegram_bot,
                 auto_restart_bots, restarts, olog, taken_after, ended_by>>
  /\ UNCHANGED not_ovars

\* the Twitter thread, a daemon thread nobody stops, runs a cycle of
\* monitor_mentions and takes up a mention
MentionTaken ==
  /\ opc # "off"
  /\ thread_is_alive
  /\ taken_after' = IF ShuttingDown THEN taken_after \cup {"mention"}
                    ELSE taken_after
  /\ UNCHANGED <<opc, bots, thread_is_alive, monitor_task, running,
                 telegram_bot, auto_restart_bots, restarts, olog, ended_by>>
  /\ UNCHANGED not_ovars

\* the Telegram updater, while it runs, hands an inbound message to the
\* application
MessageTaken ==
  /\ opc # "off"
  /\ telegram_bot = "polling"
  /\ taken_after' = IF ShuttingDown THEN taken_after \cup {"message"}
                    ELSE taken_after
  /\ UNCHANGED <<opc, bots, thread_is_alive, monitor_task, running,
                 telegram_bot, auto_restart_bots, restarts, olog, ended_by>>
  /\ UNCHANGED not_ovars

\* monitor_bots that leaves a dead Twitter thread in active_bots
MonitorIteration_keep(restarted) ==
  /\ monitor_task = "sleeping"
  /\ opc = "waiting"
  /\ IF ~(running /\ bots # <<>>)
       THEN /\ monitor_task' = "done"
            /\ running' = FALSE
            /\ UNCHANGED <<bots, thread_is_alive, restarts>>
       ELSE /\ monitor_task' = "sleeping"
            /\ UNCHANGED <<bots, thread_is_alive, restarts, running>>
  /\ UNCHANGED <<opc, telegram_bot, auto_restart_bots, olog, taken_after,
                 ended_by>>
  /\ UNCHANGED not_ovars

\* one iteration of the loop of monitor_bots, from its test to the
\* `await asyncio.sleep(5)` or out of the loop; restarted is what
\* start_twitter_bot returns when it is called
MonitorIteration(restarted) ==
  /\ monitor_task = "sleeping"
  /\ opc = "waiting"
  /\ IF ~(running /\ bots # <<>>)
       THEN /\ monitor_task' = "done"
            /\ running' = FALSE
            /\ UNCHANGED <<bots, thread_is_alive, restarts>>
     ELSE IF in("Twitter", bots) /\ ~thread_is_alive
       THEN LET removed == remove(bots, "Twitter")
                again == auto_restart_bots /\ restarted
                                            /\ restarts < MaxRestarts
                left == IF again THEN Append(removed, "Twitter")
                        ELSE removed
            IN /\ bots' = left
               /\ thread_is_alive' = again
               /\ restarts' = restarts + (IF again THEN 1 ELSE 0)
               /\ monitor_task' = IF left = <<>> THEN "done" ELSE "sleeping"
               /\ running' = (left # <<>>)
     ELSE /\ monitor_task' = "sleeping"
          /\ UNCHANGED <<bots, thread_is_alive, restarts, running>>
  /\ UNCHANGED <<opc, telegram_bot, auto_restart_bots, olog, taken_after,
                 ended_by>>
  /\ UNCHANGED not_ovars

\* `while bot_manager.active_bots: await asyncio.sleep(1)` finds the list
\* empty; the finally clause cancels the monitor task
MainLoopEnds ==
  /\ opc = "waiting"
  /\ bots = <<>>
  /\ opc' = "cancelling"
  /\ ended_by' = "empty"
  /\ UNCHANGED <<bots, thread_is_alive, monitor_task, running, telegram_bot,
                 auto_restart_bots, restarts, olog, taken_after>>
  /\ UNCHANGED not_ovars

\* the main task is cancelled in its sleep (asyncio.run on Ctrl-C):
\* `except asyncio.CancelledError`, then the finally clause
MainCancelled ==
  /\ opc = "waiting"
  /\ opc' = "cancelling"
  /\ ended_by' = "cancelled"
  /\ UNCHANGED <<bots, thread_is_alive, monitor_task, running, telegram_bot,
                 auto_restart_bots, restarts, olog, taken_after>>
  /\ UNCHANGED not_ovars

\* `monitor_task.cancel(); await monitor_task` returns, and
\* BotManager.shutdown is entered: running = False
MonitorAwaited ==
  /\ opc = "cancelling"
  /\ monitor_task' = IF monitor_task = "sleeping" THEN "cancelled"
                     ELSE monitor_task
  /\ running' = FALSE
  /\ olog' = Append(olog, "monitor_awaited")
  /\ opc' = IF telegram_bot = "none" THEN "ended" ELSE "updater"
  /\ UNCHANGED <<bots, thread_is_alive, telegram_bot, auto_restart_bots,
                 restarts, taken_after, ended_by>>
  /\ UNCHANGED not_ovars

\* where BotManager.shutdown goes when a step of TelegramBot.shutdown
\* raises: `except Exception` logs it and shutdown returns
shutdown_step(ok, next) == IF ok THEN next ELSE "ended"

\* `await self.application.updater.stop()`; it raises when the updater is
\* not running
UpdaterStop(ok) ==
  /\ opc = "updater"
  /\ LET done == ok /\ telegram_bot = "polling" IN
       /\ opc' = shutdown_step(done, "application")
       /\ telegram_bot' = IF done THEN "updater_stopped" ELSE telegram_bot
       /\ olog' = IF done THEN Append(olog, "updater_stopped") ELSE olog
  /\ UNCHANGED <<bots, thread_is_alive, monitor_task, running,
                 auto_restart_bots, restarts, taken_after, ended_by>>
  /\ UNCHANGED not_ovars

\* `await self.application.stop()`
ApplicationStop(ok) ==
  /\ opc = "application"
  /\ opc' = shutdown_step(ok, "release")
  /\ telegram_bot' = IF ok THEN "stopped" ELSE telegram_bot
  /\ olog' = IF ok THEN Append(olog, "application_stopped") ELSE olog
  /\ UNCHANGED <<bots, thread_is_alive, monitor_task, running,
                 auto_restart_bots, restarts, taken_after, ended_by>>
  /\ UNCHANGED not_ovars

\* `await self.application.shutdown()`
ApplicationShutdown(ok) ==
  /\ opc = "release"
  /\ opc' = "ended"
  /\ telegram_bot' = IF ok THEN "shut_down" ELSE telegram_bot
  /\ olog' = IF ok THEN Append(olog, "application_shut_down") ELSE olog
  /\ UNCHANGED <<bots, thread_is_alive, monitor_task, running,
                 auto_restart_bots, restarts, taken_after, ended_by>>
  /\ UNCHANGED not_ovars

\* async_start has started the bots, found active_bots non-empty and
\* created the monitor task
OrchInit ==
  /\ opc = "waiting"
  /\ bots \in BotLists \ {<<>>}
  /\ thread_is_alive = in("Twitter", bots)
  /\ monitor_task = "sleeping"
  /\ running = TRUE
  /\ telegram_bot \in (IF in("Telegram", bots) THEN {"polling"}
                       ELSE {"none", "failed"})
  /\ auto_restart_bots \in BOOLEAN
  /\ restarts = 0
  /\ olog = <<>>
  /\ taken_after = {}
  /\ ended_by = "none"

InitOrch ==
  DispatchInit /\ FilterOff /\ ExtractOff /\ StartOff /\ ChatOff /\ PollOff
    /\ WindowOff /\ IdentityOff /\ OrchInit
    /\ SignOff

NextOrch ==
  \/ ThreadEnds
  \/ MentionTaken
  \/ MessageTaken
  \/ \E restarted \in BOOLEAN : MonitorIteration(restarted)
  \/ MainLoopEnds
  \/ MainCancelled
  \/ MonitorAwaited
  \/ \E ok \in BOOLEAN : UpdaterStop(ok)
  \/ \E ok \in BOOLEAN : ApplicationStop(ok)
  \/ \E ok \in BOOLEAN : ApplicationShutdown(ok)

OrchSpec == InitOrch /\ [][NextOrch]_vars

\* the event loop runs every task that is ready: the monitor's iteration,
\* the main loop's test and the steps of the shutdown path
OrchFairSpec ==
  /\ OrchSpec
  /\ WF_vars(\E restarted \in BOOLEAN : MonitorIteration(restarted))
  /\ WF_vars(MainLoopEnds)
  /\ WF_vars(MonitorAwaited)
  /\ WF_vars(\E ok \in BOOLEAN : UpdaterStop(ok))
  /\ WF_vars(\E ok \in BOOLEAN : ApplicationStop(ok))
  /\ WF_vars(\E ok \in BOOLEAN : ApplicationShutdown(ok))

-----------------------------------------------------------------------------
(* RequestSigner: TwitterBot._get_oauth1_auth as a function of the          *)
(* credentials, the request, the nonce and the timestamp, called twice.     *)
(* Strings are sequences of characters; the HMAC-SHA1 digest is a term of   *)
(* its key and message.                                                     *)

MaxParams == 2

\* ord(c) of the characters used
Code ==
  (" " :> 32) @@ ("!" :> 33) @@ ("%" :> 37) @@ ("&" :> 38) @@ ("-" :> 45) @@
  ("." :> 46) @@ ("/" :> 47) @@ ("0" :> 48) @@ ("1" :> 49) @@ ("2" :> 50) @@
  ("3" :> 51) @@ ("4" :> 52) @@ ("5" :> 53) @@ ("6" :> 54) @@ ("7" :> 55) @@
  ("8" :> 56) @@ ("9" :> 57) @@ (":" :> 58) @@ ("=" :> 61) @@ ("?" :> 63) @@
  ("A" :> 65) @@ ("B" :> 66) @@ ("C" :> 67) @@ ("D" :> 68) @@ ("E" :> 69) @@
  ("F" :> 70) @@ ("G" :> 71) @@ ("H" :> 72) @@ ("I" :> 73) @@ ("J" :> 74) @@
  ("K" :> 75) @@ ("L" :> 76) @@ ("M" :> 77) @@ ("N" :> 78) @@ ("O" :> 79) @@
  ("P" :> 80) @@ ("Q" :> 81) @@ ("R" :> 82) @@ ("S" :> 83) @@ ("T" :> 84) @@
  ("U" :> 85) @@ ("V" :> 86) @@ ("W" :> 87) @@ ("X" :> 88) @@ ("Y" :> 89) @@
  ("Z" :> 90) @@ ("_" :> 95) @@ ("a" :> 97) @@ ("b" :> 98) @@ ("c" :> 99) @@
  ("d" :> 100) @@ ("e" :> 101) @@ ("f" :> 102) @@ ("g" :> 103) @@ ("h" :> 104) @@
  ("i" :> 105) @@ ("j" :> 106) @@ ("k" :> 107) @@ ("l" :> 108) @@ ("m" :> 109) @@
  ("n" :> 110) @@ ("o" :> 111) @@ ("p" :> 112) @@ ("q" :> 113) @@ ("r" :> 114) @@
  ("s" :> 115) @@ ("t" :> 116) @@ ("u" :> 117) @@ ("v" :> 118) @@ ("w" :> 119) @@
  ("x" :> 120) @@ ("y" :> 121) @@ ("z" :> 122)

unreserved(c) ==
  \/ Code[c] \in 48..57 \/ Code[c] \in 65..90 \/ Code[c] \in 97..122
  \/ c \in {"_", ".", "-"}

HexDigits == <<"0", "1", "2", "3", "4", "5", "6", "7", "8", "9",
               "A", "B", "C", "D", "E", "F">>

\* urllib.parse.quote(str(value), safe=""): every character that is not
\* unreserved becomes %XX
RECURSIVE url_encode(_)
url_encode(value) ==
  IF value = <<>> THEN <<>>
  ELSE IF Len(value) = 1
    THEN LET c == value[1] IN
         IF unreserved(c) THEN <<c>>
         ELSE <<"%", HexDigits[(Code[c] \div 16) + 1],
                HexDigits[(Code[c] % 16) + 1]>>
  ELSE LET half == Len(value) \div 2 IN
       url_encode(SubSeq(value, 1, half))
         \o url_encode(SubSeq(value, half + 1, Len(value)))

\* a < b for strings, as Python compares them
RECURSIVE less(_, _)
less(a, b) ==
  IF b = <<>> THEN FALSE
  ELSE IF a = <<>> THEN TRUE
  ELSE IF Code[Head(a)] # Code[Head(b)] THEN Code[Head(a)] < Code[Head(b)]
  ELSE less(Tail(a), Tail(b))

\* dict[k] = v on a dict kept as the sequence of its items in insertion
\* order
RECURSIVE setitem(_, _, _)
setitem(d, k, v) ==
  IF d = <<>> THEN << <<k, v>> >>
  ELSE IF Head(d)[1] = k THEN << <<k, v>> >> \o Tail(d)
  ELSE <<Head(d)>> \o setitem(Tail(d), k, v)

\* dict.update(other)
RECURSIVE update_dict(_, _)
update_dict(d, other) ==
  IF other = <<>> THEN d
  ELSE update_dict(setitem(d, Head(other)[1], Head(other)[2]), Tail(other))

\* insertion of an item into items sorted by key(item), after its equals
RECURSIVE insert_sorted(_, _, _)
insert_sorted(item, items, enc) ==
  LET key(i) == IF enc THEN url_encode(i[1]) ELSE i[1] IN
  IF items = <<>> THEN <<item>>
  ELSE IF less(key(item), key(Head(items))) THEN <<item>> \o items
  ELSE <<Head(items)>> \o insert_sorted(item, Tail(items), enc)

\* sorted(items, key=...): by the encoded key (enc) or by the key itself
RECURSIVE sorted(_, _)
sorted(items, enc) ==
  IF items = <<>> THEN <<>>
  ELSE insert_sorted(items[Len(items)],
                     sorted(SubSeq(items, 1, Len(items) - 1), enc), enc)

\* "&".join(f"{encoded_key}={encoded_value}" ...)
RECURSIVE param_string(_)
param_string(items) ==
  IF items = <<>> THEN <<>>
  ELSE url_encode(Head(items)[1]) \o <<"=">> \o url_encode(Head(items)[2])
       \o (IF Len(items) > 1 THEN <<"&">> ELSE <<>>)
       \o param_string(Tail(items))

\* url.split("?")[0]
RECURSIVE base_url(_)
base_url(url) ==
  IF url = <<>> \/ Head(url) = "?" THEN <<>>
  ELSE <<Head(url)>> \o base_url(Tail(url))

\* str.upper() on the letters of the method names
UpperChar(c) ==
  IF Code[c] \in 97..122
    THEN CHOOSE u \in DOMAIN Code : Code[u] = Code[c] - 32
    ELSE c

upper(s) == [j \in 1..Len(s) |-> UpperChar(s[j])]

\* base64(hmac_sha1(key, msg)) and its url-encoding, as terms
Signature(key, msg) == [hmac_key |-> key, msg |-> msg]

OAuthKey(name) ==
  CASE name = "consumer_key" -> <<"o", "a", "u", "t", "h", "_", "c", "o", "n", "s", "u", "m", "e", "r", "_", "k", "e", "y">>
    [] name = "nonce" -> <<"o", "a", "u", "t", "h", "_", "n", "o", "n", "c", "e">>
    [] name = "signature" -> <<"o", "a", "u", "t", "h", "_", "s", "i", "g", "n", "a", "t", "u", "r", "e">>
    [] name = "signature_method" -> <<"o", "a", "u", "t", "h", "_", "s", "i", "g", "n", "a", "t", "u", "r", "e", "_", "m", "e", "t", "h", "o", "d">>
    [] name = "timestamp" -> <<"o", "a", "u", "t", "h", "_", "t", "i", "m", "e", "s", "t", "a", "m", "p">>
    [] name = "token" -> <<"o", "a", "u", "t", "h", "_", "t", "o", "k", "e", "n">>
    [] name = "version" -> <<"o", "a", "u", "t", "h", "_", "v", "e", "r", "s", "i", "o", "n">>

\* the oauth_params dict before the signature is added
oauth_params(creds, nonce, timestamp) ==
  << <<OAuthKey("consumer_key"), creds.api_key>>,
     <<OAuthKey("nonce"), nonce>>,
     <<OAuthKey("signature_method"), <<"H", "M", "A", "C", "-", "S", "H", "A", "1">>>>,
     <<OAuthKey("timestamp"), timestamp>>,
     <<OAuthKey("token"), creds.access_token>>,
     <<OAuthKey("version"), <<"1", ".", "0">>>> >>

\* the header: "OAuth " and the parts key="encoded value" of the
\* oauth_params sorted by key, the signature being one of them
header_parts(items, signature) ==
  LET all == sorted(items \o << <<OAuthKey("signature"), <<>>>> >>, FALSE) IN
  [j \in 1..Len(all) |->
     IF all[j][1] = OAuthKey("signature")
       THEN [key |-> url_encode(all[j][1]), value |-> <<>>,
             signature |-> signature]
       ELSE [key |-> url_encode(all[j][1]), value |-> url_encode(all[j][2]),
             signature |-> Signature(<<>>, <<>>)]]

\* _get_oauth1_auth that also signs the items of the JSON body
get_oauth1_auth_body(creds, method, url, params, json_data, nonce, timestamp) ==
  LET oauth == oauth_params(creds, nonce, timestamp)
      all_params == update_dict(update_dict(params, json_data), oauth)
      base_string == upper(method) \o <<"&">> \o url_encode(base_url(url))
                       \o <<"&">>
                       \o url_encode(param_string(sorted(all_params, TRUE)))
      signing_key == url_encode(creds.api_secret) \o <<"&">>
                       \o url_encode(creds.access_secret)
  IN header_parts(oauth, Signature(signing_key, base_string))

\* _get_oauth1_auth(method, url, params, json_data) with the values that
\* uuid4 and time.time() gave it
get_oauth1_auth(creds, method, url, params, json_data, nonce, timestamp) ==
  LET oauth == oauth_params(creds, nonce, timestamp)
      all_params == update_dict(params, oauth)
      base_string == upper(method) \o <<"&">> \o url_encode(base_url(url))
                       \o <<"&">>
                       \o url_encode(param_string(sorted(all_params, TRUE)))
      signing_key == url_encode(creds.api_secret) \o <<"&">>
                       \o url_encode(creds.access_secret)
  IN header_parts(oauth, Signature(signing_key, base_string))

\* the credentials of the bot
Credentials ==
  { [api_key |-> <<"k", "1">>, api_secret |-> <<"s", "&", "1">>,
     access_token |-> <<"t", "-", "1">>, access_secret |-> <<"x", " ", "1">>],
    [api_key |-> <<"k", "2">>, api_secret |-> <<"s", "2">>,
     access_token |-> <<"t", "2">>, access_secret |-> <<"x", "2">>] }

Methods == { <<"p", "o", "s", "t">>, <<"G", "E", "T">> }

Urls == { <<"h", ":", "/", "/", "a", "/", "2">>,
          <<"h", ":", "/", "/", "a", "/", "2", "?", "q", "=", "1">> }

\* items of query parameters
Items ==
  { << <<"b">>, <<"1", " ", "2">> >>, << <<"a", "!">>, <<"x">> >>,
    << <<"B">>, <<"y", "&", "z">> >> }

\* items of JSON bodies
BodyItems ==
  { << <<"t", "e", "x", "t">>, <<"h", "i">> >>, << <<"b">>, <<"3">> >> }

\* dicts of at most n of the items, with different keys
Dicts(items, n) ==
  { d \in SeqsUpTo(items, n) :
      \A i, j \in 1..Len(d) : i # j => d[i][1] # d[j][1] }

\* the same dict with its items inserted in another order
RECURSIVE reversed(_)
reversed(d) ==
  IF d = <<>> THEN <<>> ELSE reversed(Tail(d)) \o <<Head(d)>>

Nonces == { <<"n", "1">>, <<"n", "2">> }

Timestamps == { <<"1", "7", "0">>, <<"1", "7", "1">> }

\* both calls are made and return
SignTwice ==
  /\ gpc = "ready"
  /\ gpc' = "signed"
  /\ header1' = get_oauth1_auth(request.creds, request.method, request.url,
                                request.params, request.json1,
                                request.nonce, request.timestamp)
  /\ header2' = get_oauth1_auth(request.creds, request.method, request.url,
                                reversed(request.params), request.json2,
                                request.nonce, request.timestamp)
  /\ UNCHANGED request
  /\ UNCHANGED not_gvars

\* the next pair of calls
SignAgain ==
  /\ gpc = "signed"
  /\ gpc' = "ready"
  /\ header1' = <<>>
  /\ header2' = <<>>
  /\ request' \in
       [creds : {request.creds}, method : {request.method},
        url : {request.url}, params : {request.params},
        nonce : Nonces, timestamp : {request.timestamp},
        json1 : {request.json1}, json2 : {request.json2}]
  /\ UNCHANGED not_gvars

SignInit ==
  /\ gpc = "ready"
  /\ request \in
       [creds : Credentials, method : Methods, url : Urls,
        params : Dicts(Items, MaxParams), nonce : Nonces, timestamp : Timestamps,
        json1 : Dicts(BodyItems, 1), json2 : Dicts(BodyItems, 1)]
  /\ header1 = <<>>
  /\ header2 = <<>>

InitSign ==
  DispatchInit /\ FilterOff /\ ExtractOff /\ StartOff /\ ChatOff /\ PollOff
    /\ WindowOff /\ IdentityOff /\ OrchOff /\ SignInit

NextSign == SignTwice \/ SignAgain

SignSpec == InitSign /\ [][NextSign]_vars

-----------------------------------------------------------------------------
(* ReplyDispatcher: properties *)

Is2xx(o) == o.kind = "status" /\ o.status \in 200..299
Is5xx(o) == o.kind = "status" /\ o.status >= 500
Is429(o) == o.kind = "status" /\ o.status = 429
IsOther4xx(o) == o.kind = "status" /\ o.status \in 400..499 /\ o.status # 429
IsTimeout(o) == o.kind = "timeout"
IsError(o) == o.kind = "error"

\* C1: for post and reply, whatever max_retries and whatever the remote
\* outcomes, the retry counter never exceeds max_retries, at most
\* max_retries + 1 requests are issued, and a call that has started returns.
C1_Terminates ==
  /\ [](retry_count <= max_retries /\ attempts <= max_retries + 1)
  /\ (pc = "request" ~> pc = "done")

\* a call that used up all its retries and returned
C1_Witness ==
  /\ pc = "done"
  /\ max_retries = DefaultMaxRetries
  /\ retry_count = max_retries
  /\ attempts = max_retries + 1

\* C2: when every response to post is HTTP 500 and max_retries = 3, post
\* returns null after exactly 3 retries, i.e. exactly 4 requests.
C2_AllServerErrors ==
  ( /\ pc = "done"
    /\ op = "post"
    /\ max_retries = 3
    /\ \A i \in 1..Len(outcomes) :
         outcomes[i].kind = "status" /\ outcomes[i].status = 500 )
  => ( /\ result = Null
       /\ attempts = 4
       /\ retry_count = 3
       /\ Len(delays) = 3 )

C2_Witness ==
  /\ pc = "done"
  /\ op = "post"
  /\ max_retries = 3
  /\ Len(outcomes) = 4
  /\ \A i \in 1..4 : outcomes[i].kind = "status" /\ outcomes[i].status = 500
  /\ result = Null

\* the case of C3: post saw a 429 and then a 201 carrying an id
C3_Case ==
  /\ pc = "done"
  /\ op = "post"
  /\ Len(outcomes) = 2
  /\ Is429(outcomes[1])
  /\ outcomes[2].kind = "status" /\ outcomes[2].status = 201
  /\ outcomes[2].id # NoId

\* C3 as stated: 429 then 201 returns the id of the second response after
\* sleeping 20 seconds between the two attempts.
C3_Original ==
  C3_Case => (result = outcomes[2].id /\ delays = <<20>>)

\* C3 as amended: 429 then 201 returns the id of the second response after
\* sleeping 10 seconds (2^0 * 10) between the two attempts.
C3_Amended ==
  C3_Case => (result = outcomes[2].id /\ delays = <<10>>)

C3_Witness ==
  C3_Case /\ outcomes[2].id = "1002" /\ result = "1002"

ResultKind(v) == IF v \in PostIds THEN "id" ELSE v

\* The call of operation o_p replayed on the outcome sequence os from level
\* rc on: the requests it issues, the delays it sleeps, what it returns, and
\* whether it has returned by the end of os.
RECURSIVE Replay(_, _, _, _)
Replay(o_p, mr, os, rc) ==
  IF rc + 1 > Len(os)
    THEN [done |-> FALSE, attempts |-> rc, slept |-> <<>>, value |-> Null]
    ELSE LET r == Level(o_p, rc, mr, os[rc + 1]) IN
         IF r.act = "retry"
           THEN LET rest == Replay(o_p, mr, os, rc + 1) IN
                [rest EXCEPT !.slept = <<r.delay>> \o @]
           ELSE [done |-> TRUE, attempts |-> rc + 1, slept |-> <<>>,
                 value |-> IF r.act = "raise" THEN Raised ELSE r.value]

\* C4: post and reply apply one retry policy: on the same sequence of remote
\* outcomes both make the same number of requests, sleep the same delays and
\* return the same kind of result, and an unexpected exception is retried
\* after 2^attempt*3 seconds while attempt < max_retries.
C4_SamePolicy ==
  pc = "done" =>
    LET p == Replay("post", max_retries, outcomes, 0)
        r == Replay("reply", max_retries, outcomes, 0)
    IN /\ p.done /\ r.done
       /\ p.attempts = r.attempts
       /\ p.slept = r.slept
       /\ ResultKind(p.value) = ResultKind(r.value)
       /\ \A i \in 1..Len(outcomes) :
            (IsError(outcomes[i]) /\ i - 1 < max_retries)
              => (Len(delays) >= i /\ delays[i] = (2 ^ (i - 1)) * 3)

\* C5: the delay slept before retry number attempt+1 is 2^attempt*2 after a
\* 5xx response, 2^attempt*10 after a 429 and 2^attempt*5 after a timeout,
\* and a retry happens only while attempt < max_retries.
C5_BackoffTable ==
  /\ \A i \in 1..Len(delays) :
       /\ i - 1 < max_retries
       /\ Is5xx(outcomes[i]) => delays[i] = (2 ^ (i - 1)) * 2
       /\ Is429(outcomes[i]) => delays[i] = (2 ^ (i - 1)) * 10
       /\ IsTimeout(outcomes[i]) => delays[i] = (2 ^ (i - 1)) * 5
  /\ pc = "sleeping" =>
       /\ retry_count < max_retries
       /\ Is5xx(outcomes[Len(outcomes)]) => retry_delay = (2 ^ retry_count) * 2
       /\ Is429(outcomes[Len(outcomes)]) => retry_delay = (2 ^ retry_count) * 10
       /\ IsTimeout(outcomes[Len(outcomes)]) => retry_delay = (2 ^ retry_count) * 5

\* three retries, one after each kind of transient failure
C5_Witness ==
  /\ Len(delays) = 3
  /\ \E i \in 1..3 : Is5xx(outcomes[i])
  /\ \E i \in 1..3 : Is429(outcomes[i])
  /\ \E i \in 1..3 : IsTimeout(outcomes[i])

\* C6: a 4xx response other than 429 ends the call at once with null: it is
\* the last request of the call, no backoff follows it and nothing is retried.
C6_ClientErrorFinal ==
  \A i \in 1..Len(outcomes) :
    IsOther4xx(outcomes[i]) =>
      /\ i = Len(outcomes)
      /\ pc = "done"
      /\ result = Null
      /\ attempts = i
      /\ Len(delays) = i - 1
      /\ retry_delay = 0

\* a client error on a retry, for a call with retries left
C6_Witness ==
  /\ pc = "done"
  /\ Len(outcomes) = 2
  /\ IsOther4xx(outcomes[2])
  /\ retry_count < max_retries

\* C7 as stated: every 2xx response makes post and reply return the id the
\* response carries; no 2xx response results in null.
C7_Original ==
  \A i \in 1..Len(outcomes) :
    (Is2xx(outcomes[i]) /\ (outcomes[i].status \in {200, 201} => outcomes[i].id # NoId))
      => (pc = "done" /\ result \in PostIds)

\* C7 as amended: a 200 or 201 response whose body carries data.id makes post
\* and reply return that id; every other 2xx status ends the call with null,
\* without retry.
C7_Amended ==
  \A i \in 1..Len(outcomes) :
    /\ (outcomes[i].kind = "status" /\ outcomes[i].status \in {200, 201}
          /\ outcomes[i].id # NoId)
         => (i = Len(outcomes) /\ pc = "done" /\ result = outcomes[i].id)
    /\ (Is2xx(outcomes[i]) /\ outcomes[i].status \notin {200, 201})
         => (i = Len(outcomes) /\ pc = "done" /\ result = Null
               /\ Len(delays) = i - 1)

C7_Witness ==
  /\ pc = "done"
  /\ op = "reply"
  /\ Len(outcomes) = 2
  /\ outcomes[2].kind = "status" /\ outcomes[2].status = 201
  /\ result = "1001"

\* C8: post and reply never raise to their caller: the outcome of a call is
\* a post id or null.
C8_NeverRaises ==
  /\ result # Raised
  /\ pc = "done" => result \in PostIds \cup {Null}

\* a call that ended on a non-timeout exception after a timeout
C8_Witness ==
  /\ pc = "done"
  /\ Len(outcomes) >= 2
  /\ IsTimeout(outcomes[1])
  /\ IsError(outcomes[Len(outcomes)])
  /\ result = Null

-----------------------------------------------------------------------------
(* MentionFilter: properties *)

\* some mentioned-user screen name, '@'-prefixed, equals the handle when both
\* are compared case-insensitively
MentionsHandle(t, acct) ==
  \E i \in 1..Len(t.user_mentions) :
    <<"@">> \o lower(t.user_mentions[i]) = lower(acct)

\* the three conditions of the filter policy, (b) on the UTC instant the
\* created_at string denotes
Qualifies(t, acct, now) ==
  /\ t.has_id /\ t.has_created
  /\ t.created_at.fmt
  /\ UtcEpoch(t.created_at) >= now - PollingInterval
  /\ MentionsHandle(t, acct)

InSeq(x, q) == \E i \in 1..Len(q) : q[i] = x

\* C9: filter returns, in input order, exactly the mentions that (a) have an
\* id and a creation timestamp, (b) whose timestamp parses and whose UTC
\* epoch is >= now - window_seconds, (c) one of whose mentioned users is the
\* monitored handle, compared case-insensitively.
C9_ExactlyQualifying ==
  fpc = "returned" =>
    new_mentions = SelectSeq(tweets, LAMBDA t : Qualifies(t, account, current_time))

\* the timestamp a created_at string spells: its calendar fields read as UTC
\* (the instant itself for the platform's +0000 strings)
Spelled(t) == t.created_at.wall

\* C10: the window is inclusive at its lower edge: a mention of the monitored
\* handle whose timestamp equals now - window_seconds is returned, one whose
\* timestamp is one second older is not.
C10_InclusiveEdge ==
  fpc = "returned" =>
    \A i \in 1..Len(tweets) :
      LET t == tweets[i] IN
      (t.has_id /\ t.has_created /\ t.created_at.fmt /\ MentionsHandle(t, account))
        => /\ Spelled(t) = current_time - PollingInterval => InSeq(t, new_mentions)
           /\ Spelled(t) = current_time - PollingInterval - 1 => ~InSeq(t, new_mentions)

\* a batch holding a mention exactly on the edge after one a second older
C10_Witness ==
  /\ fpc = "returned"
  /\ Len(tweets) = 2
  /\ \A i \in 1..2 :
       /\ tweets[i].has_id /\ tweets[i].has_created /\ tweets[i].created_at.fmt
       /\ tweets[i].created_at.off = 0
       /\ MentionsHandle(tweets[i], account)
  /\ Spelled(tweets[1]) = current_time - PollingInterval - 1
  /\ Spelled(tweets[2]) = current_time - PollingInterval
  /\ new_mentions = <<tweets[2]>>

\* the filter policy on the timestamp the created_at string spells
QualifiesSpelled(t, acct, now) ==
  /\ t.has_id /\ t.has_created
  /\ t.created_at.fmt
  /\ Spelled(t) >= now - PollingInterval
  /\ MentionsHandle(t, acct)

\* C11: a mention whose mentioned users do not include the monitored handle
\* is never returned by filter, whatever its timestamp.
C11_OnlyMonitoredHandle ==
  \A i \in 1..Len(new_mentions) : MentionsHandle(new_mentions[i], account)

\* a recent, complete mention of another handle only, left out of the result
C11_Witness ==
  /\ fpc = "returned"
  /\ \E i \in 1..Len(tweets) :
       /\ tweets[i].has_id /\ tweets[i].has_created /\ tweets[i].created_at.fmt
       /\ tweets[i].created_at.off = 0
       /\ Spelled(tweets[i]) > current_time - PollingInterval
       /\ tweets[i].user_mentions = <<<<"c", "b">>>>
       /\ ~InSeq(tweets[i], new_mentions)

-----------------------------------------------------------------------------
(* MentionExtractor: properties *)

\* the entry passes every __typename / type guard of the traversal
PassesGuards(e) ==
  /\ e.content = "ok" /\ e.itemContent = "ok"
  /\ e.tweet_results = "ok" /\ e.result = "ok"

\* the traversal of the entry meets a value that is no dict where it expects
\* one: a "null" node all of whose ancestors pass their guards
BrokenEntry(e) ==
  \/ e.self = "null"
  \/ e.content = "null"
  \/ e.content = "ok" /\ e.itemContent = "null"
  \/ e.content = "ok" /\ e.itemContent = "ok" /\ e.tweet_results = "null"
  \/ e.content = "ok" /\ e.itemContent = "ok" /\ e.tweet_results = "ok"
       /\ e.result = "null"
  \/ PassesGuards(e) /\ (e.legacy = "null" \/ e.core = "null")

BrokenInstruction(ins) ==
  \/ ins.self = "null"
  \/ ins.type = "TimelineAddEntries" /\ ins.entries = "null"
  \/ ins.type = "TimelineAddEntries" /\ ins.entries = "ok"
       /\ \E i \in 1..Len(ins.list) : BrokenEntry(ins.list[i])

\* the response does not have the shape the traversal expects
StructuralMismatch(resp) ==
  \/ resp.top # "ok"
  \/ \E i \in 1..Len(resp.instructions) : BrokenInstruction(resp.instructions[i])

\* the entries of the TimelineAddEntries instructions, in response order
RECURSIVE AllEntries(_)
AllEntries(inss) ==
  IF inss = <<>> THEN <<>>
  ELSE (IF Head(inss).self = "ok" /\ Head(inss).type = "TimelineAddEntries"
             /\ Head(inss).entries = "ok"
          THEN Head(inss).list ELSE <<>>)
       \o AllEntries(Tail(inss))

\* the tweets of the entries of es that pass every guard and are not broken
RECURSIVE TweetsOfGood(_)
TweetsOfGood(es) ==
  IF es = <<>> THEN <<>>
  ELSE (IF PassesGuards(Head(es)) /\ ~BrokenEntry(Head(es))
          THEN <<tweet_of(Head(es))>> ELSE <<>>)
       \o TweetsOfGood(Tail(es))

\* C13: extract never raises: for every raw response it returns a list, and
\* a structural mismatch yields the empty list.
C13_NeverRaises ==
  /\ xpc # "raised"
  /\ (xpc = "returned" /\ StructuralMismatch(response_data)) => extracted = <<>>

\* a response with a well-formed entry followed by one whose content is no dict
C13_Witness ==
  /\ xpc = "returned"
  /\ response_data.top = "ok"
  /\ Len(response_data.instructions) = 1
  /\ Len(response_data.instructions[1].list) = 2
  /\ PassesGuards(response_data.instructions[1].list[1])
  /\ ~BrokenEntry(response_data.instructions[1].list[1])
  /\ response_data.instructions[1].list[2].content = "null"
  /\ extracted = <<>>

\* C14 as stated: every well-formed entry that passes all guards is in the
\* result, in input order, even when other entries of the response are
\* malformed, and no other entry is.
C14_Original ==
  (xpc = "returned" /\ response_data.top = "ok")
    => extracted = TweetsOfGood(AllEntries(response_data.instructions))

\* C14 as amended: entries failing a guard are skipped and the others are
\* extracted in input order as long as the traversal meets no value of the
\* wrong JSON type; when it meets one, the result is the empty list.
C14_Amended ==
  (xpc = "returned" /\ response_data.top = "ok") =>
    IF StructuralMismatch(response_data)
      THEN extracted = <<>>
      ELSE extracted = TweetsOfGood(AllEntries(response_data.instructions))

\* a guard-failing entry between two well-formed ones, both extracted in order
C14_Witness ==
  /\ xpc = "returned"
  /\ response_data.top = "ok"
  /\ Len(response_data.instructions) = 2
  /\ response_data.instructions[1].type = "TimelineAddEntries"
  /\ Len(response_data.instructions[1].list) = 1
  /\ Len(response_data.instructions[2].list) = 2
  /\ response_data.instructions[2].list[1].result = "other"
  /\ PassesGuards(response_data.instructions[2].list[2])
  /\ Len(extracted) = 2
  /\ extracted[1].id_str = "t4"
  /\ extracted[2].id_str = "t1"

-----------------------------------------------------------------------------
(* Startup: properties *)

MissingCredential(s) ==
  \/ Falsy(s.x_api_key) \/ Falsy(s.x_api_key_secret)
  \/ Falsy(s.x_access_token) \/ Falsy(s.x_access_token_secret)
  \/ Falsy(s.rapidapi_key)

\* C15: with any of the five required credentials missing (unset or empty),
\* constructing the poller fails with an error and no network call has been
\* made; the orchestrator's start then returns False, starts no poller thread
\* and does not record Twitter as an active bot.
C15_MissingCredentialFails ==
  (spc # "off" /\ MissingCredential(settings)) =>
    /\ spc # "constructed"
    /\ network_calls = 0
    /\ spc = "ctor_raised" => ctor_error = "ValueError"
    /\ spc = "start_returned" =>
         /\ start_result = FALSE
         /\ twitter_thread = Null
         /\ active_bots = <<>>

\* the orchestrator reached the constructor, which raised on the missing
\* search-API key
C15_Witness ==
  /\ spc = "start_returned"
  /\ settings.enable_twitter
  /\ settings.rapidapi_key = Null
  /\ ctor_error = "ValueError"
  /\ start_result = FALSE

-----------------------------------------------------------------------------
(* ChatHandler: properties *)

\* an update is being handled: it has a message and a sender, and the handler
\* has not returned to the application yet
Handling == tpc \in {"get_me", "notice", "typing", "reply", "fallback", "done"}

\* the handler is past the identity and text checks: the update has a text
\* and the bot identity is resolved
Detected ==
  /\ Handling
  /\ tpc # "get_me"
  /\ exit \notin {"no_message", "no_identity", "no_text"}

InGroup == update.chat_type \in {"group", "supergroup", "channel"}

\* the resolved span of an entity
EntitySpan(u, e) == slice(u.text, e.offset, e.offset + e.length)

\* rule 1 for one entity: a "mention" whose span, lower-cased and without a
\* leading "@", is the bot's username lower-cased
EntityMatches(u, e) ==
  /\ e.type = "mention"
  /\ LET sp == EntitySpan(u, e)
         name == IF sp # <<>> /\ sp[1] = "@" THEN Tail(sp) ELSE sp
     IN lower(name) = lower(BotIdentity.username)

EntityHit(u) == \E i \in DOMAIN u.entities : EntityMatches(u, u.entities[i])

\* the first matching entity in the order of the message
WinningEntity(u) ==
  u.entities[CHOOSE i \in DOMAIN u.entities :
               /\ EntityMatches(u, u.entities[i])
               /\ \A j \in 1..(i - 1) : ~EntityMatches(u, u.entities[j])]

AtUsername == <<"@">> \o BotIdentity.username

\* the 0-based positions where @username occurs, compared case-insensitively
Occurrences(text) ==
  { i \in 0..(Len(text) - Len(AtUsername)) :
      lower(slice(text, i, i + Len(AtUsername))) = lower(AtUsername) }

\* rule 2
TextHit(u) == Occurrences(u.text) # {}

FirstOccurrence(text) ==
  CHOOSE i \in Occurrences(text) : \A j \in Occurrences(text) : i <= j

\* rule 3
ReplyHit(u) == u.reply_from # NoUser /\ u.reply_from = BotId

\* text without the characters at 0-based positions off .. off+len-1
RemoveSpan(text, off, span) ==
  SubSeq(text, 1, off) \o SubSeq(text, off + span + 1, Len(text))

\* what the generator is given for a stripped text: the default greeting when
\* nothing remains
OrGreeting(text) == IF text = <<>> THEN Hello ELSE text

\* C16: in a private chat every text message is treated as addressed (it
\* reaches access control, and the generator when the sender is allowed) and
\* the text handed to the generator is the message text unchanged, whatever
\* entities, mentions or reply metadata the message carries.
C16_PrivateUnchanged ==
  (Detected /\ update.chat_type = "private") =>
    /\ exit # "not_mentioned"
    /\ message_text = update.text
    /\ \A i \in DOMAIN prompts : prompts[i] = update.text
    /\ is_user_allowed(allowed_user_ids, update.user) =>
         \/ tpc \in {"typing", "reply", "fallback"}
         \/ tpc = "done" /\ exit \in {"replied", "fallback", "raised"}

\* a private message with a mention entity of the bot, replying to the bot,
\* was answered from its unchanged text
C16_Witness ==
  /\ tpc = "done"
  /\ exit = "replied"
  /\ update.chat_type = "private"
  /\ update.text = <<"@", "B", " ", "h">>
  /\ update.entities = <<MessageEntity("mention", 0, 2)>>
  /\ update.reply_from = BotId
  /\ prompts = <<update.text>>

\* C17: in a group chat the rule that addresses the message is the first of
\* entity match, text match, reply match that holds (none when none holds),
\* and the text is stripped by that rule alone: by the winning entity's
\* mention string on an entity match, by the matched @username on a text
\* match, not at all on a reply match.
C17_Precedence ==
  (Detected /\ InGroup) =>
    /\ matched_by = (IF EntityHit(update) THEN "entity"
                     ELSE IF TextHit(update) THEN "text"
                     ELSE IF ReplyHit(update) THEN "reply"
                     ELSE "none")
    /\ is_mentioned = (matched_by # "none")
    /\ matched_by = "entity" =>
         message_text =
           OrGreeting(strip(replace(update.text,
                                    EntitySpan(update, WinningEntity(update)))))
    /\ matched_by = "text" =>
         message_text =
           OrGreeting(strip(replace(update.text,
              slice(update.text, FirstOccurrence(update.text),
                    FirstOccurrence(update.text) + Len(AtUsername)))))
    /\ matched_by \in {"reply", "none"} => message_text = update.text

\* all three rules hold for "@B @b" with the entity on "@B" in a reply to the
\* bot; the entity rule won and the "@b" the text rule would strip is kept
C17_Witness ==
  /\ tpc = "done"
  /\ exit = "replied"
  /\ InGroup
  /\ update.text = <<"@", "B", " ", "@", "b">>
  /\ update.entities = <<MessageEntity("mention", 0, 2)>>
  /\ update.reply_from = BotId
  /\ matched_by = "entity"
  /\ prompts = << <<"@", "b">> >>

\* C18: on an entity match the stripped text is the original text with
\* exactly the matching entity's span removed, then trimmed; every other part
\* of the text, other occurrences of the same mention string included, is
\* kept.
C18_ExactSpanRemoved ==
  (Detected /\ InGroup /\ matched_by = "entity") =>
    message_text =
      OrGreeting(strip(RemoveSpan(update.text, WinningEntity(update).offset,
                                  WinningEntity(update).length)))

\* C19: on a text match only the first occurrence of @username, in the case
\* in which it appears, is stripped; later occurrences remain.
C19_FirstOccurrenceRemoved ==
  (Detected /\ InGroup /\ matched_by = "text") =>
    message_text =
      OrGreeting(strip(RemoveSpan(update.text, FirstOccurrence(update.text),
                                  Len(AtUsername))))

\* C20: for a group-chat message that matches none of the three rules the
\* handler sends no typing indicator, never calls the generator, sends no
\* reply and leaves last_processed_time as it was.
C20_DroppedUntouched ==
  (Handling /\ update.has_message /\ update.user # NoUser /\ InGroup
     /\ ~EntityHit(update) /\ ~TextHit(update) /\ ~ReplyHit(update)) =>
    /\ typing_actions = 0
    /\ prompts = <<>>
    /\ replies = <<>>
    /\ last_processed_time = last_processed_before
    /\ tpc = "done" => exit \in {"not_mentioned", "no_identity", "no_text"}

\* a reply to another user with a mention entity that is not the bot's, in a
\* group the bot has answered before, was dropped
C20_Witness ==
  /\ tpc = "done"
  /\ exit = "not_mentioned"
  /\ InGroup
  /\ update.text = <<" ", "h", " ">>
  /\ update.entities = <<MessageEntity("mention", 0, 2)>>
  /\ update.reply_from = 1
  /\ last_processed_before[GroupChatId] > 0
  /\ last_processed_time = last_processed_before
  /\ replies = <<>>

\* the sender is not on a non-empty allow-list
NotAllowed ==
  allowed_user_ids # {} /\ update.user \notin allowed_user_ids

\* the message is addressed to the bot: any private message, a group message
\* for which one of the three rules holds
Addressed ==
  \/ update.chat_type = "private"
  \/ InGroup /\ (EntityHit(update) \/ TextHit(update) \/ ReplyHit(update))

\* the handler denied the sender
Denied == tpc = "notice" \/ (tpc = "done" /\ exit = "unauthorized")

\* generate_content returned for this update: only then is the chat's
\* last_processed_time assigned, with a later clock value
GenerationSucceeded ==
  last_processed_time[chat_id(update)] # last_processed_before[chat_id(update)]

\* C21: the generator is never called with an empty text; a group message
\* that is nothing but the mention of the bot is answered from the default
\* greeting, and on the paths that reach the generator the text is not empty.
C21_NeverEmptyPrompt ==
  /\ \A i \in DOMAIN prompts : prompts[i] # <<>>
  /\ tpc \in {"typing", "reply", "fallback"} => message_text # <<>>
  /\ (Detected /\ InGroup /\ lower(update.text) = lower(AtUsername)) =>
       message_text = Hello

\* the message "@b" in a group was answered from the greeting
C21_Witness ==
  /\ tpc = "done"
  /\ exit = "replied"
  /\ InGroup
  /\ update.text = <<"@", "b">>
  /\ update.entities = <<>>
  /\ prompts = <<Hello>>

\* C22: a sender is denied iff the allow-list is not empty and does not hold
\* the sender's id; with an empty allow-list every sender is allowed.
C22_AllowList ==
  (Detected /\ Addressed /\ exit # "raised") =>
    (Denied <=> (allowed_user_ids # {} /\ update.user \notin allowed_user_ids))

\* with an empty allow-list a message of user 2 was answered
C22_Witness ==
  /\ tpc = "done"
  /\ exit = "replied"
  /\ allowed_user_ids = {}
  /\ update.user = 2
  /\ replies = <<ResponseText>>

\* C23: for a message of a sender who is not allowed the generator is never
\* called and no typing indicator is sent; in a group chat nothing is sent
\* back; in a private chat the one thing sent is the not-authorized notice,
\* sent once (nothing is sent when that send itself raises).
C23_UnauthorizedSilent ==
  (Handling /\ update.has_message /\ update.user # NoUser /\ NotAllowed) =>
    /\ prompts = <<>>
    /\ typing_actions = 0
    /\ InGroup => replies = <<>>
    /\ update.chat_type = "private" =>
         /\ replies \in {<<>>, <<NotAuthorizedText>>}
         /\ (tpc = "done" /\ exit = "unauthorized") =>
              replies = <<NotAuthorizedText>>
         /\ exit = "raised" => replies = <<>>
         /\ Detected =>
              \/ tpc = "notice"
              \/ tpc = "done" /\ exit \in {"unauthorized", "raised"}

\* user 2, not on the allow-list {1}, got the notice in a private chat
C23_Witness ==
  /\ tpc = "done"
  /\ exit = "unauthorized"
  /\ update.chat_type = "private"
  /\ allowed_user_ids = {1}
  /\ update.user = 2
  /\ replies = <<NotAuthorizedText>>

\* C24: every addressed and authorized message (identity resolved, text
\* present) gets exactly one reply, the generated text when generation
\* succeeded and the fallback when it failed (stated for the handlers that
\* returned; the generation error is caught in every run).
C24_ExactlyOneReply ==
  (Detected /\ Addressed /\ ~NotAllowed /\ tpc = "done" /\ exit # "raised") =>
    /\ Len(replies) = 1
    /\ replies[1] = (IF GenerationSucceeded THEN ResponseText ELSE FallbackText)

\* C24 as amended: the handler returns after exactly one reply, the generated
\* text when everything in the try block succeeded, the fallback when
\* send_chat_action, generate_content or the sending of the generated text
\* raised; the handler raises only when the sending of the fallback raises,
\* and then nothing was sent.
C24_Amended ==
  (Detected /\ Addressed /\ ~NotAllowed /\ tpc = "done") =>
    /\ exit \in {"replied", "fallback", "raised"}
    /\ exit = "replied" =>
         /\ replies = <<ResponseText>>
         /\ GenerationSucceeded
         /\ Len(prompts) = 1
    /\ exit = "fallback" => replies = <<FallbackText>>
    /\ exit = "raised" => replies = <<>>
    /\ (prompts # <<>> /\ ~GenerationSucceeded) => exit \in {"fallback", "raised"}

\* generate_content raised and the fallback was the one reply
C24_Witness ==
  /\ tpc = "done"
  /\ exit = "fallback"
  /\ Len(prompts) = 1
  /\ typing_actions = 1
  /\ ~GenerationSucceeded
  /\ replies = <<FallbackText>>

-----------------------------------------------------------------------------
(* MentionPoller: properties *)

\* handle_mention is waiting for post_reply
InHandler == ppc \in {"reply", "reply_sleep"}

\* the last entry of the cycle's log
LastEvent == plog[Len(plog)]

\* C25: when the generator raises for a mention that passed the filter,
\* handle_mention hands the fixed fallback text to post_reply as a reply to
\* that mention, and the exception does not reach the loop's except clause.
C25_FallbackDispatched ==
  ~gen_result.ok =>
    /\ InHandler
    /\ reply.kind = "fallback"
    /\ reply.to = Head(queue).id_str
    /\ len(reply.text) = FallbackChars + Len(reply.username)
    /\ LastEvent = Event("reply", acct_idx, <<Head(queue).id_str>>)

C25_Witness ==
  /\ ~gen_result.ok
  /\ ppc = "reply"
  /\ reply_rc > 0
  /\ reply.kind = "fallback"

\* C26: a generated reply handed to post_reply has at most 280 characters: a
\* generated text of at most 280 characters is handed over unchanged, a
\* longer one as its first 277 characters followed by "...", so that a text
\* of 300 characters becomes 280 characters ending in "...".
C26_Truncated ==
  (InHandler /\ reply.kind = "generated") =>
    /\ len(reply.text) <= 280
    /\ (len(gen_result.text) <= 280 => reply.text = gen_result.text)
    /\ (len(gen_result.text) > 280 => reply.text = Text(277, TRUE))
    /\ (len(gen_result.text) = 300 => len(reply.text) = 280 /\ reply.text.dots)

C26_Witness ==
  /\ InHandler
  /\ reply.kind = "generated"
  /\ len(gen_result.text) = 300
  /\ len(reply.text) = 280

\* the end-to-end scenario: the search for "@ab" returned exactly the entry
\* t1, which mentions "@ab" and was created 5 seconds before the filter
\* ran, logged at position i of the cycle
Scenario(i) ==
  /\ accounts_to_monitor[1] = Handle1
  /\ plog[i] = Event("search", 1, <<"t1">>)

ReplyEvents(tweet_id) ==
  { j \in 1..Len(plog) : plog[j] = Event("reply", 1, <<tweet_id>>) }

\* the text of tweet without the "@" token of the tweet's author
AuthorStripped(tweet) ==
  strip(replace(tweet.full_text, <<"@">> \o tweet.user_screen_name))

\* C27 as stated: in the scenario the filter returns exactly t1, the
\* generator is called with the text of t1 without its author's "@" token,
\* and one reply of at most 280 characters is handed over for t1.
C27_AuthorStripped ==
  \A i \in 1..Len(plog) :
    (Scenario(i) /\ InHandler /\ Len(plog) = i + 2) =>
      /\ plog[i + 1] = Event("filter", 1, <<"t1">>)
      /\ gen_prompt = AuthorStripped(Head(queue))
      /\ reply.to = "t1"
      /\ len(reply.text) <= 280
      /\ Cardinality(ReplyEvents("t1")) = 1

\* C27, amended: in the scenario the filter returns exactly t1, the
\* generator is called with the text of t1 without the "@screen_name" token
\* of any user the tweet mentions (for "@ab hi" mentioning ab: "hi"), and
\* one reply of at most 280 characters is handed over for t1.
C27_Amended ==
  \A i \in 1..Len(plog) :
    Scenario(i) =>
      /\ Len(plog) > i
      /\ plog[i + 1] = Event("filter", 1, <<"t1">>)
      /\ (ppc # "handle" \/ Len(plog) > i + 1) =>
           /\ Len(plog) >= i + 2
           /\ plog[i + 2] = Event("reply", 1, <<"t1">>)
      /\ Cardinality(ReplyEvents("t1")) <= 1
      /\ (InHandler /\ Len(plog) = i + 2) =>
           /\ Head(queue).full_text = <<"@", "a", "b", " ", "h", "i">>
           /\ gen_prompt = <<"h", "i">>
           /\ \A m \in 1..Len(Head(queue).user_mentions) :
                ~contains(gen_prompt, <<"@">> \o Head(queue).user_mentions[m])
           /\ reply.to = "t1"
           /\ len(reply.text) <= 280

C27_Witness ==
  /\ Len(plog) = 3
  /\ Scenario(1)
  /\ ppc = "reply"
  /\ gen_result.ok
  /\ gen_prompt = <<"h", "i">>
  /\ reply.to = "t1"

\* the ids the filter returned for the account at position idx
FilterIds(idx) ==
  LET js == { j \in 1..Len(plog) :
                plog[j].kind = "filter" /\ plog[j].idx = idx }
  IN IF js = {} THEN <<>> ELSE plog[CHOOSE j \in js : TRUE].what

\* how many replies for the account at position idx have returned
Replied(idx) ==
  Cardinality({ j \in 1..Len(plog) :
                  plog[j].kind = "replied" /\ plog[j].idx = idx })

\* the k-th "replied" entry of the account at position idx
RepliedAt(idx, k) ==
  CHOOSE j \in 1..Len(plog) :
    /\ plog[j].kind = "replied" /\ plog[j].idx = idx
    /\ Cardinality({ h \in 1..j :
                       plog[h].kind = "replied" /\ plog[h].idx = idx }) = k

\* C28: within a cycle the accounts are handled one after another in the
\* order of accounts_to_monitor: the search, the filter and every reply
\* (with its retries) of the account at position i are over before the
\* search for position i+1 starts, and the mentions of one account are
\* replied to one at a time in the order the filter returned them.
C28_Sequential ==
  /\ \A j \in 1..Len(plog) :
       /\ plog[j].idx \in 1..acct_idx
       /\ j > 1 => plog[j].idx \in {plog[j - 1].idx, plog[j - 1].idx + 1}
       /\ j = 1 => plog[j].idx = 1
       \* a later account starts with its search, after everything the
       \* filter returned for the one before it has been replied to
       /\ (j > 1 /\ plog[j].idx # plog[j - 1].idx) =>
            /\ plog[j].kind = "search"
            /\ Replied(plog[j - 1].idx) = Len(FilterIds(plog[j - 1].idx))
       \* a reply is over before anything else happens
       /\ plog[j].kind = "reply" =>
            IF j = Len(plog) THEN InHandler
            ELSE plog[j + 1] = Event("replied", plog[j].idx, plog[j].what)
  /\ \A idx \in 1..acct_idx :
       /\ Cardinality({ j \in 1..Len(plog) :
                          plog[j].kind = "filter" /\ plog[j].idx = idx }) <= 1
       /\ Replied(idx) <= Len(FilterIds(idx))
       /\ \A k \in 1..Replied(idx) :
            plog[RepliedAt(idx, k)].what = <<FilterIds(idx)[k]>>
  /\ InHandler =>
       /\ reply.to = FilterIds(acct_idx)[Replied(acct_idx) + 1]
       /\ LastEvent = Event("reply", acct_idx, <<reply.to>>)
  /\ ppc \in {"search", "search_sleep"} => (queue = <<>> /\ reply = NoReply)

C28_Witness ==
  /\ Len(accounts_to_monitor) = 2
  /\ acct_idx = 2
  /\ FilterIds(1) = <<"t2", "t1">>
  /\ Replied(1) = 2
  /\ ppc = "reply_sleep"
  /\ reply.to = "t2"

\* the poller is at a position whose step can be taken: the guards of the
\* actions of NextPoll
CanStep ==
  \/ ppc \in {"search", "search_sleep", "reply", "reply_sleep",
              "handle_sleep", "cycle_sleep", "error_sleep"}
  \/ ppc = "handle" /\ queue # <<>>

\* C29: an exception that leaves a cycle is caught by the loop: the poller
\* sleeps 2 x polling_interval, and only that, and then starts a new cycle
\* with the first account; the poller always has a next step.
C29_ErrorBackoff ==
  /\ [][ppc = "error_sleep" =>
          /\ slept' = 2 * PollingInterval
          /\ ppc' = "search"
          /\ acct_idx' = 1
          /\ search_rc' = 0
          /\ plog' = <<>>]_vars
  /\ [](ppc = "error_sleep" => LastEvent.kind = "error")
  /\ []CanStep

C29_Witness ==
  /\ ppc = "search"
  /\ plog = <<>>
  /\ acct_idx = 1
  /\ slept = 2 * PollingInterval

\* the accounts whose search and filter are in the cycle's log
Processed ==
  { idx \in 1..Len(accounts_to_monitor) :
      \E j \in 1..Len(plog) : plog[j].kind = "filter" /\ plog[j].idx = idx }

NoError == \A j \in 1..Len(plog) : plog[j].kind # "error"

\* C30: when all accounts of a cycle have been processed without an
\* exception, the poller sleeps polling_interval seconds once, issues no
\* search during the sleep, and then starts the next cycle.
C30_CycleSleep ==
  /\ [](ppc = "cycle_sleep" =>
          /\ Processed = 1..Len(accounts_to_monitor)
          /\ \A idx \in Processed : Replied(idx) = Len(FilterIds(idx))
          /\ NoError
          /\ queue = <<>>)
  /\ [][ppc = "cycle_sleep" =>
          /\ slept' = PollingInterval
          /\ ppc' = "search"
          /\ acct_idx' = 1
          /\ plog' = <<>>]_vars
  /\ [][(plog # <<>> /\ plog' = <<>> /\ NoError) => ppc = "cycle_sleep"]_vars

C30_Witness ==
  /\ ppc = "search"
  /\ plog = <<>>
  /\ acct_idx = 1
  /\ slept = PollingInterval
  /\ Len(accounts_to_monitor) = 2

\* the entries of the cycle's log for the 1 s sleep
SleepEvents == { j \in 1..Len(plog) : plog[j].kind = "sleep" }

\* C31: the 1 s sleep separates consecutive accounts of a cycle: with N > 1
\* accounts it is taken N-1 times per cycle, never after the last account,
\* and with one account it is not taken at all.
C31_InterHandle ==
  LET N == Len(accounts_to_monitor) IN
  /\ N = 1 => SleepEvents = {}
  /\ N > 1 =>
       /\ \A j \in SleepEvents : plog[j].idx < N
       /\ Cardinality(SleepEvents) <= N - 1
       /\ ppc = "cycle_sleep" => Cardinality(SleepEvents) = N - 1

\* the entries of the cycle's log where a reply to tweet_id is handed to
\* post_reply, under any account
DispatchesOf(tweet_id) ==
  { j \in 1..Len(plog) :
      plog[j].kind = "reply" /\ plog[j].what = <<tweet_id>> }

\* no search response of the cycle lists a tweet twice
DistinctResults ==
  \A j \in 1..Len(plog) :
    plog[j].kind = "search" =>
      \A a, b \in 1..Len(plog[j].what) :
        plog[j].what[a] = plog[j].what[b] => a = b

\* C36: no mention id has a reply dispatched for it more than once, across
\* the monitored accounts of one cycle included (a tweet that mentions two
\* monitored accounts), when no search response lists a tweet twice.
C36_RepliedOnce ==
  DistinctResults =>
    \A tweet_id \in {"t1", "t2", "t4"} :
      Cardinality(DispatchesOf(tweet_id)) <= 1

\* the ids of the "reply" entries of the account at position idx, in order
RECURSIVE reply_ids(_, _)
reply_ids(events, idx) ==
  IF events = <<>> THEN <<>>
  ELSE (IF Head(events).kind = "reply" /\ Head(events).idx = idx
          THEN Head(events).what ELSE <<>>)
       \o reply_ids(Tail(events), idx)

\* C37: handle_mention hands exactly one reply to post_reply for each
\* mention it handles, the generated one or the fallback one: the replies
\* dispatched for an account are those of the mentions its filter kept, one
\* each and in order, one more than those that returned while a dispatch is
\* in progress and as many otherwise; this also holds when post_reply gave
\* None for the generated reply after its retries.
C37_OneDispatch ==
  /\ \A idx \in 1..Len(accounts_to_monitor) :
       LET ids == reply_ids(plog, idx) IN
       /\ Len(ids) <= Len(FilterIds(idx))
       /\ ids = SubSeq(FilterIds(idx), 1, Len(ids))
       /\ Len(ids) - Replied(idx) =
            IF InHandler /\ acct_idx = idx THEN 1 ELSE 0
  /\ InHandler =>
       reply.kind = IF gen_result.ok THEN "generated" ELSE "fallback"
  /\ reply_result # Unset =>
       /\ LastEvent.kind = "replied"
       /\ reply_result.kind \in {"generated", "fallback"}

C37_Witness ==
  /\ reply_result = Result("generated", Null)
  /\ slept = (2 ^ (DefaultMaxRetries - 1)) * 3
  /\ LastEvent.kind = "replied"
  /\ Len(reply_ids(plog, acct_idx)) = Replied(acct_idx)
  /\ C37_OneDispatch

\* C38: an entry of a search response without an id (or with an empty one)
\* is never dispatched a reply: the filter keeps no mention whose id is
\* empty, and no reply is handed to post_reply for one.
C38_NoEmptyId ==
  \A j \in 1..Len(plog) :
    plog[j].kind \in {"filter", "reply"} =>
      \A k \in 1..Len(plog[j].what) : plog[j].what[k] # ""

\* C39: search_twitter never raises and retries only after a 429: while
\* retry_count < max_retries it sleeps 2^retry_count*2 seconds and calls
\* itself with retry_count + 1; after any other status but 200, after an
\* exception and after a 429 at retry_count = max_retries it returns [] at
\* once, so that the filter runs on no tweets and no error is logged.
C39_SearchRetries ==
  /\ [][\A o \in SearchFailures :
          SearchRespond(o) =>
            LET retried == ppc' = "search_sleep" IN
            /\ retried <=> /\ o.kind = "status"
                           /\ o.status = 429
                           /\ search_rc < SearchMaxRetries
            /\ retried => /\ backoff' = (2 ^ search_rc) * 2
                          /\ plog' = Append(plog, Event("search", acct_idx, <<>>))
            /\ ~retried =>
                 /\ plog' = plog \o <<Event("search", acct_idx, <<>>),
                                      Event("filter", acct_idx, <<>>)>>
                 /\ ppc' = after_mentions(accounts_to_monitor)]_vars
  /\ [][(ppc = "search" /\ ppc' = "search_sleep") =>
          \E o \in SearchFailures : o.status = 429 /\ SearchRespond(o)]_vars
  /\ [][(ppc = "search" /\ plog' # plog) =>
          plog'[Len(plog) + 1].kind = "search"]_vars
  /\ [][SearchSleep =>
          /\ slept' = (2 ^ search_rc) * 2
          /\ search_rc' = search_rc + 1
          /\ search_rc' <= SearchMaxRetries
          /\ ppc' = "search"]_vars

C39_Witness ==
  /\ search_rc = SearchMaxRetries
  /\ slept = (2 ^ (SearchMaxRetries - 1)) * 2
  /\ ppc = after_mentions(accounts_to_monitor)
  /\ Len(plog) = SearchMaxRetries + 2
  /\ \A j \in 1..(SearchMaxRetries + 1) : plog[j] = Event("search", 1, <<>>)
  /\ LastEvent = Event("filter", 1, <<>>)

-----------------------------------------------------------------------------
(* MentionWindow: properties *)

\* C32: the filter window equals the poll interval and nothing remembers
\* what was seen, so a mention can go without a reply for good: once a
\* delay in a cycle (search retries, reply backoff, the error sleep) or a
\* failed search has let its age pass the window at a filter call, it has
\* not been replied to and no later cycle replies to it.
C32_MissedAfterDelay ==
  wmissed =>
    /\ dispatches = 0
    /\ wdelayed \/ wfailed
    /\ wclock - posted_at > PollingInterval

C32_Witness ==
  /\ wmissed
  /\ wdelayed
  /\ ~wfailed
  /\ dispatches = 0
  /\ posted_at > WindowStart
  /\ posted_at <= WindowStart + PollingInterval
  /\ wpc = "cycle_sleep"
  /\ wclock >= posted_at + 2 * PollingInterval

-----------------------------------------------------------------------------
(* BotIdentity: properties *)

-----------------------------------------------------------------------------
(* Orchestrator: properties *)

\* the place of a step in the order monitor task, updater, application
\* stop, application shutdown
Rank(step) ==
  CASE step = "monitor_awaited" -> 1
    [] step = "updater_stopped" -> 2
    [] step = "application_stopped" -> 3
    [] step = "application_shut_down" -> 4

\* the steps of the shutdown path were taken in order, none left out before
\* a later one
InOrder ==
  \A j \in 1..Len(olog) : Rank(olog[j]) = j

\* C34: on every shutdown path new work stops before the channel is
\* released: the monitor task is cancelled and awaited, then the updater is
\* stopped, then the application is stopped and only then shut down, and
\* after the shutdown path has begun no inbound message and no mention is
\* taken up any more.
C34_StopsBeforeRelease ==
  /\ InOrder
  /\ taken_after = {}

\* C40: when the Twitter thread has ended, auto-restart is off and Telegram
\* is not in active_bots, monitor_bots removes "Twitter", the main loop
\* ends and the shutdown path runs to its end (unless the main task is
\* cancelled first, which takes the shutdown path as well); while
\* active_bots is not empty the main loop ends only by cancellation.
C40_DeadPollerEndsRun ==
  /\ (/\ opc = "waiting"
      /\ in("Twitter", bots)
      /\ ~thread_is_alive
      /\ ~auto_restart_bots
      /\ ~in("Telegram", bots))
       ~> (opc = "ended" /\ (bots = <<>> \/ ended_by = "cancelled"))
  /\ [][(opc = "waiting" /\ opc' # "waiting" /\ bots # <<>>)
          => ended_by' = "cancelled"]_vars
  /\ [](ended_by = "empty" => bots = <<>>)

C40_Witness ==
  /\ opc = "ended"
  /\ ended_by = "empty"
  /\ bots = <<>>
  /\ ~thread_is_alive
  /\ ~auto_restart_bots
  /\ monitor_task = "done"
  /\ telegram_bot = "none"
  /\ olog = <<"monitor_awaited">>

-----------------------------------------------------------------------------
(* RequestSigner: properties *)

\* C35: with the nonce and the timestamp fixed, two calls with the same
\* credentials, method, url and query parameters return the same
\* Authorization header, whatever JSON body comes with each of them.
C35_Deterministic ==
  gpc = "signed" => header1 = header2

C35_Witness ==
  /\ gpc = "signed"
  /\ request.json1 # request.json2
  /\ request.json1 # <<>>
  /\ Len(request.params) = 2
  /\ header1 = header2
  /\ \E j \in 1..Len(header1) :
       /\ header1[j].key = <<"o", "a", "u", "t", "h", "_", "s", "i", "g",
                             "n", "a", "t", "u", "r", "e">>
       /\ header1[j].signature.msg # <<>>

====
